---- MODULE Spec2Model ----
(***************************************************************************)
(* Activity-aware phase scheduler (autoweb/scheduler.py,                   *)
(* AutomationScheduler) together with its polling activity monitor         *)
(* (autoweb/idle_detector_safe.py, IdleDetector).                          *)
(*                                                                         *)
(* Three threads are modelled: the monitor's polling thread (mpc), the     *)
(* scheduling thread (spc) and the caller of the public API (cpc).  The    *)
(* wall clock (time.time()) is the variable now, counted in ticks of       *)
(* 1/TicksPerSec second; sleeps are abstracted to "the loop body runs      *)
(* again at some later step".  The code between two sleeps takes no model  *)
(* time: the clock advances only while every live thread sleeps, waits or  *)
(* is inside an ActionExecutor call, and no sleep lasts longer than the    *)
(* code asks for (to the next whole tick).  Thread.join(timeout) is        *)
(* modelled as a wait for the joined thread's end: every step of both      *)
(* loops is bounded below the join timeouts (50 ms poll, <= 1 s sleeps     *)
(* against 1 s and 2 s).  No state-change observer is installed, except    *)
(* in SpecObs, where the observer may raise.                               *)
(*                                                                         *)
(* Further parts, each with a specification of its own over the same       *)
(* variables: the app switch and its round-robin selector over a list of   *)
(* windows (SpecApps, SpecSelect, SpecRetry), the termination protection   *)
(* (autoweb/protection.py, ApplicationProtection) with the process and     *)
(* the operating system around it (SpecProt), the two state locks as the   *)
(* three threads take and release them (SpecLocks), and the forced logout  *)
(* (autoweb/force_logout.py, ForceLogoutHandler; SpecLogout).              *)
(***************************************************************************)
EXTENDS Integers, Sequences, FiniteSets, TLC

\* ------------------------------------------------------------------ bounds
\* Last clock value the model explores (ticks).
MaxTime == 5

\* Runs (accepted start() calls) the model explores.
MaxRuns == 1

\* Clock ticks per second: int() truncates a tick count to whole seconds.
TicksPerSec == 2

\* Longest list of windows the app switch is explored with.
MaxWindows == 3

\* ------------------------------------------------------------- configuration
\* The SchedulerConfig of the explored runs, scaled down from the defaults so
\* that whole runs fit below MaxTime.  The int fields (active_duration,
\* idle_min, idle_max, total_runtime) are in seconds, the float fields in
\* ticks (so 3 is 1.5 s).
Config == [active_duration |-> 1, idle_min |-> 1, idle_max |-> 1,
           total_runtime |-> 2,
           action_interval_min |-> 2, action_interval_max |-> 2,
           app_switch_interval |-> 3, click_phase_max |-> 2,
           user_idle_timeout |-> 2]

\* The same with inverted idle bounds (idle_min > idle_max), and with inverted
\* action-interval bounds.
ConfigIdleInverted == [Config EXCEPT !.idle_min = 2, !.idle_max = 1]

ConfigIntervalInverted == [Config EXCEPT !.action_interval_min = 2, !.action_interval_max = 1]

\* The same with the idle phase switched off (idle_min = idle_max = 0).
ConfigNoIdle == [Config EXCEPT !.idle_min = 0, !.idle_max = 0]

\* A configuration under which app switches come due within MaxTime: actions
\* after one or two ticks, an app switch every second tick, Active phases of
\* two seconds.
ConfigSwitch == [Config EXCEPT !.active_duration = 2, !.action_interval_min = 1,
                               !.action_interval_max = 2, !.app_switch_interval = 2]

\* Tracked inputs: _prev_mouse_state keys and KEYBOARD_KEYS, in scan order.
MouseButtons == <<"lbutton">>
KeyboardKeys == <<"key">>
Inputs == {MouseButtons[i] : i \in DOMAIN MouseButtons} \cup {KeyboardKeys[i] : i \in DOMAIN KeyboardKeys}

\* AutomationPhase values the scheduler publishes.
Phases == {"STOPPED", "ACTIVE", "IDLE", "WAITING_IDLE"}

\* ActionType values of _action_weights, plus the separately timed app switch.
GeneralActions == {"MOUSE_MOVE", "MOUSE_CLICK", "TAB_SWITCH", "SCROLL"}

None == -1

VARIABLES
    now,              \* time.time(), in ticks
    hw,               \* GetAsyncKeyState per tracked input (physical state)
    \* ---- IdleDetector
    prev,             \* _prev_mouse_state / _prev_key_states
    mon,              \* IdleDetector._state
    idle_notified,    \* _idle_notified
    ignore_activity,  \* _ignore_activity
    mon_stop_event,   \* IdleDetector._stop_event
    mon_is_running,   \* IdleDetector._is_running
    mpc,              \* polling thread position ("none" before start, "done" after exit)
    \* ---- AutomationScheduler
    st,               \* AutomationScheduler._state (SchedulerState)
    stop_event,       \* _stop_event
    pause_event,      \* _pause_event
    resume_event,     \* _resume_event
    start_time,       \* _start_time
    paused_time,      \* _paused_time
    pause_start,      \* _pause_start
    last_app_switch_time, \* _last_app_switch_time
    spc,              \* scheduling thread position
    loc,              \* scheduling thread locals
    cpc,              \* API caller position
    config,           \* AutomationScheduler.config (SchedulerConfig, never written)
    \* ---- windows
    visible_windows,  \* _known_windows: what get_visible_windows() returned at the last refresh
    foreground,       \* hwnd of the foreground window, 0 for none
    minimized,        \* hwnds for which user32.IsIconic() answers true
    app_cycle_index,  \* _app_cycle_index
    chrome_window_index, \* _chrome_window_index
    refresh_due,      \* time.time() - _last_window_refresh > 5.0
    sw,               \* locals of a running _execute_app_switch()
    slept,            \* ticks each thread has spent in its current sleep
    \* ---- ApplicationProtection
    prot,             \* the ApplicationProtection instance's fields
    osys,             \* its process and the operating system around it
    \* ---- locks and ForceLogoutHandler
    lk,               \* owners of the two state locks and what each thread has left to do with them
    fl,               \* the ForceLogoutHandler instance's fields and the threads around it
    \* ---- history
    hist              \* observations of the run, written but never read by the program

monVars == <<prev, mon, idle_notified, ignore_activity, mon_stop_event, mon_is_running, mpc>>
schedVars == <<st, stop_event, pause_event, resume_event, start_time, paused_time, pause_start, last_app_switch_time, spc, loc>>
protVars == <<prot, osys>>
handlerVars == <<lk, fl>>
appVars == <<visible_windows, foreground, minimized, app_cycle_index, chrome_window_index, refresh_due, sw>>
vars == <<now, hw, prev, mon, idle_notified, ignore_activity, mon_stop_event, mon_is_running, mpc, st, stop_event, pause_event, resume_event, start_time, paused_time, pause_start, last_app_switch_time, spc, loc, cpc, config, visible_windows, foreground, minimized, app_cycle_index, chrome_window_index, refresh_due, sw, slept, prot, osys, lk, fl, hist>>

\* ------------------------------------------------------------------ helpers
\* int(x) of a non-negative duration x given in ticks: whole seconds.
IntSec(ticks) == IF ticks >= 0 THEN ticks \div TicksPerSec ELSE -((-ticks) \div TicksPerSec)

Max(a, b) == IF a >= b THEN a ELSE b

Min(a, b) == IF a <= b THEN a ELSE b

Secs(s) == s * TicksPerSec

\* ------------------------------------------------------------------ Init
\* IdleState() as constructed: never active, last_activity_time 0.
IdleState0 == [is_user_active |-> FALSE, last_activity_time |-> 0, activity_type |-> "none"]

\* SchedulerState() as constructed.
SchedulerState0 == [phase |-> "STOPPED", cycle_count |-> 0, last_action |-> "",
                    is_running |-> FALSE, runtime_remaining |-> 300,
                    idle_wait_remaining |-> 0, is_user_active |-> FALSE]

\* Locals of _execute_app_switch() while it is not running: attempt is the
\* loop counter, next_app the candidate's hwnd, result what it returned last.
Sw0 == [pc |-> "idle", attempt |-> 0, next_app |-> 0, result |-> "none"]

\* Scheduling-thread locals, at their resting values.  inject follows the
\* SendInput call of a running executor call: "down" between its press and
\* its release event, "up" after them.
Loc0 == [cycle_count |-> 0, phase_start |-> None, duration |-> None, wret |-> "none",
         action_start |-> None, interval |-> None, action |-> "none", desc |-> "none",
         click_left |-> 0, inject |-> "none", runtime_expired |-> FALSE]

\* History: armedBy is what has happened since the last on_idle invocation:
\* "init" before the first one, then "idle" (nothing), "edge" (a detected
\* press edge) or "rearm" (no edge, but a reset() or start()); edge follows
\* one physical press made during an Active or Idle phase through the polling
\* iterations that follow it; runs counts the accepted start() calls;
\* lastIdleArm is armedBy as the latest on_idle invocation found it.
\* waitTicks counts the clock ticks of the current run spent paused with the
\* phase published as WAITING_IDLE; exitReason is why the scheduling loop was
\* left ("stop": a stop() made before the budget ran out) and expiredCalls
\* counts on_runtime_expired invocations of the run;
\* lastEdge is the time of the last detected press edge;
\* synthHit says that the latest sampling recorded new presses, all of them of
\* inputs the user was not pressing (held down by injected input only);
\* clickDelay follows a safe click's pre-delay: "quiet" from its start, then
\* "stopped" after a stop() call, or "pressed" after a press by the user and
\* "polled" once a polling iteration begun after that press has ended;
\* switched lists the windows switched to in the current round of
\* Len(visible_windows) app switches;
\* ret is what the latest start() call returned; stops counts the stop()
\* calls made since the latest accepted start(), up to the second;
\* loops counts the polling threads started and not yet ended by the stop event;
\* locks counts the LockWorkStation() calls and lock says who made the latest
\* ("process" or "watchdog"); termFile says whether the emergency-disable file
\* existed at the latest termination event; disabled says that
\* disable_application_protection() has completed since the latest enabling;
\* shutdowns counts the _shutdown_gracefully() calls, up to the second;
\* phaseWait is waitTicks for the current Active or Idle phase alone;
\* resumeAt is the time of the run's latest resume from a pause.
Hist0 == [armedBy |-> "init", lastIdleArm |-> "none", edge |-> "none", edgeInput |-> "none",
          waitTicks |-> 0, exitReason |-> "none", expiredCalls |-> 0,
          lastEdge |-> None, runs |-> 0, synthHit |-> FALSE, clickDelay |-> "none",
          switched |-> <<>>, ret |-> "none", stops |-> 0, loops |-> 0,
          locks |-> 0, lock |-> "none", termFile |-> FALSE, disabled |-> FALSE,
          shutdowns |-> 0, phaseWait |-> 0, resumeAt |-> None,
          \* the last call of the round-robin selector on its own: its result,
          \* and the window list, foreground window and minimized windows it met
          select |-> [found |-> FALSE, hwnd |-> 0, examined |-> <<>>, known |-> <<>>, current |-> 0, iconic |-> {}],
          \* the current app-switch tick on its own: how many candidates it has
          \* drawn, and whether a draw after a failed switch met a stale list
          tick |-> [candidates |-> 0, stale |-> FALSE],
          \* an expiry check of the current run has returned True
          expiredSeen |-> FALSE,
          \* an app switch has been attempted in the current run
          switchTried |-> FALSE]

\* ApplicationProtection() as constructed: nothing enabled, nothing installed.
Protection0 == [protection_enabled |-> FALSE, lock_triggered |-> FALSE,
                should_shutdown |-> FALSE, shutdown_reason |-> "none",
                original_handlers |-> FALSE, power_window |-> FALSE,
                watchdog_process |-> FALSE]

\* The process and the system when the instance is constructed: the process
\* runs; none of the instance's hooks is installed (atexit: _on_exit
\* registered, signal: _signal_handler installed, console: the console
\* control handler set, excepthook: sys.excepthook replaced); no watchdog
\* process; the emergency-disable file absent; exit_thread: the
\* _delayed_exit thread started.
System0 == [process |-> "running", atexit |-> FALSE, signal |-> FALSE,
            console |-> FALSE, excepthook |-> FALSE, watchdog |-> "none",
            emergency_file |-> FALSE, exit_thread |-> FALSE]

\* History of a reset() or start() of the detector.
Rearmed(h) == IF h.armedBy = "idle" THEN [h EXCEPT !.armedBy = "rearm"] ELSE h

\* History of a polling thread being started.
LoopStarted(h) == [h EXCEPT !.loops = @ + 1]

\* The three threads that use IdleDetector._state_lock ("monitor") and
\* AutomationScheduler._state_lock ("scheduler"): the polling thread, the
\* scheduling thread and a caller of the public methods.
Threads == {"poll", "sched", "caller"}

Locks == {"monitor", "scheduler"}

\* No lock held, no thread inside a method, nobody told to stop.
Lk0 == [owner |-> [l \in Locks |-> "free"], ops |-> [t \in Threads |-> <<>>], stop |-> {}, ended |-> {}]

\* Threads that deliver activity notifications to the ForceLogoutHandler.
Notifiers == 1..3

\* Logout threads alive at once that the model follows.
MaxSequences == 2

\* ForceLogoutHandler.__init__: disabled, no logout in progress, lock free.
\* pc is where each notifying thread stands in on_user_activity_detected,
\* received what it found _enabled to be on entry, sequences how many
\* ForceLogout threads stand at each step of _execute_logout_sequence.
Fl0 == [enabled |-> FALSE, logout_in_progress |-> FALSE, lock |-> "free", pc |-> [n \in Notifiers |-> "idle"], received |-> [n \in Notifiers |-> "none"],
        sequences |-> [cleanup |-> 0, exit |-> 0, finally |-> 0, clearing |-> 0]]

\* The scheduler and its detector as constructed.
InitProgram ==
    /\ now = 1
    /\ hw = [i \in Inputs |-> FALSE]
    /\ prev = [i \in Inputs |-> FALSE]
    /\ mon = IdleState0
    /\ idle_notified = FALSE
    /\ ignore_activity = FALSE
    /\ mon_stop_event = FALSE
    /\ mon_is_running = FALSE
    /\ mpc = "none"
    /\ st = SchedulerState0
    /\ stop_event = FALSE
    /\ pause_event = FALSE
    /\ resume_event = FALSE
    /\ start_time = None
    /\ paused_time = 0
    /\ pause_start = None
    /\ last_app_switch_time = 0
    /\ spc = "none"
    /\ loc = Loc0
    /\ cpc = "idle"
    /\ app_cycle_index = 0
    /\ chrome_window_index = 0
    /\ refresh_due = TRUE
    /\ sw = Sw0
    /\ slept = [mon |-> 0, sch |-> 0]
    /\ prot = Protection0
    /\ osys = System0
    /\ lk = Lk0
    /\ fl = Fl0
    /\ hist = Hist0

\* A window list of n windows, those with hwnd in ch being Chrome windows.
WindowList(n, ch) == [k \in 1..n |-> [hwnd |-> k, chrome |-> k \in ch]]

\* A desktop of two windows, neither a Chrome window, the first in front.
Init ==
    /\ InitProgram
    /\ config = Config
    /\ visible_windows = WindowList(2, {})
    /\ foreground = 1
    /\ minimized = {}

\* Any static list of 2..MaxWindows eligible windows, any of them (or none)
\* in the foreground.
InitApps ==
    /\ InitProgram
    /\ config = Config
    /\ \E n \in 2..MaxWindows : \E ch \in SUBSET (1..n) : visible_windows = WindowList(n, ch)
    /\ foreground \in 0..Len(visible_windows)
    /\ minimized = {}

\* ------------------------------------------------------------ environment
\* Positions at which the polling thread / the scheduling thread lets time
\* pass: not started or ended, in a time.sleep(), in an executor call, in a join.
MonitorSleeps == mpc \in {"none", "done", "m_top"}
SchedulerSleeps == spc \in {"none", "done", "a_wait", "w_loop", "i_top", "x_click", "x_running", "fin_join"}

\* The longest a thread stays at a position before it runs again, in ticks:
\* time.sleep(0.05) of the poll loop, time.sleep(0.1) of the action countdown,
\* time.sleep(0.5) of the wait loop and of the idle phase, time.sleep(1) of
\* the click pre-delay; an executor call takes up to a second.  A sleep may
\* end earlier than that.
SleepTicks(pc) ==
    IF pc \in {"m_top", "a_wait", "w_loop", "i_top"} THEN 1
    ELSE IF pc \in {"x_click", "x_running"} THEN TicksPerSec
    ELSE MaxTime

\* The wall clock advances (while some thread of the program lives); no
\* thread oversleeps.
Tick ==
    /\ now < MaxTime
    /\ mpc \notin {"none", "done"} \/ spc \notin {"none", "done"}
    /\ MonitorSleeps /\ SchedulerSleeps
    /\ slept.mon < SleepTicks(mpc) /\ slept.sch < SleepTicks(spc)
    /\ slept' = [mon |-> IF SleepTicks(mpc) < MaxTime THEN slept.mon + 1 ELSE 0,
                 sch |-> IF SleepTicks(spc) < MaxTime THEN slept.sch + 1 ELSE 0]
    /\ now' = now + 1
    /\ hist' = IF st.is_running /\ pause_event /\ st.phase = "WAITING_IDLE"
               THEN [hist EXCEPT !.waitTicks = @ + 1, !.phaseWait = @ + 1]
               ELSE hist
    /\ UNCHANGED <<hw, monVars, schedVars, cpc>>
    /\ UNCHANGED appVars
    /\ UNCHANGED config
    /\ UNCHANGED protVars
    /\ UNCHANGED handlerVars

\* The user presses a tracked input.  The press is followed in hist when the
\* detector's previous sample of the input is not-pressed (so that it is an
\* edge between samples) and a run is in phase ACTIVE or IDLE; it is noted
\* when it falls into a safe click's pre-delay.
Press(i) ==
    /\ ~hw[i]
    /\ hw' = [hw EXCEPT ![i] = TRUE]
    /\ hist' = LET h == IF spc = "x_click" /\ ~prev[i] /\ hist.clickDelay = "quiet"
                         THEN [hist EXCEPT !.clickDelay = "pressed"]
                         ELSE hist
               IN IF /\ hist.edge = "none"
                     /\ ~prev[i]
                     /\ st.is_running /\ ~stop_event
                     /\ st.phase \in {"ACTIVE", "IDLE"}
                     /\ mpc \notin {"none", "done"}
                  THEN [h EXCEPT !.edge = "pressed", !.edgeInput = i]
                  ELSE h
    /\ UNCHANGED <<now, monVars, schedVars, cpc>>
    /\ UNCHANGED slept
    /\ UNCHANGED appVars
    /\ UNCHANGED config
    /\ UNCHANGED protVars
    /\ UNCHANGED handlerVars

\* The user releases a tracked input.
Release(i) ==
    /\ hw[i]
    /\ hw' = [hw EXCEPT ![i] = FALSE]
    /\ hist' = IF hist.edgeInput = i /\ hist.edge \in {"pressed", "polling"}
               THEN [hist EXCEPT !.edge = "none", !.edgeInput = "none"]
               ELSE hist
    /\ UNCHANGED <<now, monVars, schedVars, cpc>>
    /\ UNCHANGED slept
    /\ UNCHANGED appVars
    /\ UNCHANGED config
    /\ UNCHANGED protVars
    /\ UNCHANGED handlerVars

\* The tracked input an executor call presses and releases through SendInput:
\* safe_click() the left button, shortcut_ctrl_tab() the Tab key; mouse moves,
\* wheel scrolls and SetForegroundWindow press no tracked input.
InjectedInput(a) ==
    IF a = "MOUSE_CLICK" THEN "lbutton"
    ELSE IF a = "TAB_SWITCH" THEN "key"
    ELSE "none"

\* GetAsyncKeyState(vk) & 0x8000: the input is down, by the user's hand or by
\* an injected press not yet released.
IsKeyPressed(i) == hw[i] \/ (spc = "x_running" /\ loc.inject = "down" /\ InjectedInput(loc.action) = i)

\* ------------------------------------------------------------ IdleDetector
\* _check_mouse_clicks / _check_keyboard over the keys ks from index k on:
\* the first new press is recorded and ends the scan; every key scanned
\* before it has its previous state refreshed.
RECURSIVE CheckKeys(_, _, _)
CheckKeys(ks, k, pv) ==
    IF k > Len(ks) THEN [hit |-> FALSE, prev |-> pv]
    ELSE IF IsKeyPressed(ks[k]) /\ ~pv[ks[k]]
         THEN [hit |-> TRUE, prev |-> [pv EXCEPT ![ks[k]] = TRUE]]
         ELSE CheckKeys(ks, k + 1, [pv EXCEPT ![ks[k]] = IsKeyPressed(ks[k])])

\* The detector's _state_lock is held by the polling thread for the whole
\* of the on_idle callback.
MonLockFree == mpc \notin {"m_onidle", "m_onidle_do"}

\* seconds_until_idle, in ticks.
SecondsUntilIdle ==
    IF mon.last_activity_time = 0 THEN 0
    ELSE Max(0, config.user_idle_timeout - (now - mon.last_activity_time))

\* History of a write of phase = WAITING_IDLE: a followed press has had its effect.
EdgeServed(h) ==
    IF h.edge \in {"pressed", "polling"} THEN [h EXCEPT !.edge = "none", !.edgeInput = "none"] ELSE h

\* History of one polling iteration passing its top; skipped says the
\* iteration ends there (suppressed).
EdgePolled(h, skipped) ==
    IF h.edge \notin {"pressed", "polling"} THEN h
    ELSE IF ~(st.is_running /\ ~stop_event) THEN [h EXCEPT !.edge = "none", !.edgeInput = "none"]
    ELSE IF h.edge = "polling" \/ skipped THEN [h EXCEPT !.edge = "missed"]
    ELSE [h EXCEPT !.edge = "polling"]

\* History of a polling iteration that ends at its top (suppressed).
ClickPolled(h, skipped) ==
    IF h.clickDelay = "pressed" /\ skipped THEN [h EXCEPT !.clickDelay = "polled"] ELSE h

\* _poll_thread_func, loop head: leave on the stop event; while activity is
\* suppressed the iteration only sleeps.
MTop ==
    /\ mpc = "m_top"
    /\ IF mon_stop_event
       THEN /\ mpc' = "done"
            /\ hist' = [hist EXCEPT !.loops = 0]
       ELSE /\ mpc' = IF ignore_activity THEN "m_top" ELSE "m_sample"
            /\ hist' = ClickPolled(EdgePolled(hist, ignore_activity), ignore_activity)
    /\ UNCHANGED <<now, hw, prev, mon, idle_notified, ignore_activity, mon_stop_event, mon_is_running, schedVars, cpc>>
    /\ slept' = [slept EXCEPT !.mon = 0]
    /\ UNCHANGED appVars
    /\ UNCHANGED config
    /\ UNCHANGED protVars
    /\ UNCHANGED handlerVars

\* _poll_thread_func, sampling: mouse buttons, then keys; on a new press the
\* state is stamped, the idle notification re-armed and on_activity called.
MSample ==
    /\ mpc = "m_sample"
    /\ LET m == CheckKeys(MouseButtons, 1, prev)
           k == CheckKeys(KeyboardKeys, 1, m.prev)
       IN /\ prev' = k.prev
          /\ IF m.hit \/ k.hit
             THEN /\ mon' = [mon EXCEPT !.last_activity_time = now, !.is_user_active = TRUE,
                                        !.activity_type = IF m.hit THEN "MOUSE_CLICK" ELSE "KEYBOARD"]
                  /\ idle_notified' = FALSE
                  /\ hist' = [hist EXCEPT !.armedBy = IF @ = "init" THEN @ ELSE "edge", !.lastEdge = now,
                                           !.synthHit = \A i \in Inputs : (~prev[i] /\ k.prev[i]) => ~hw[i]]
                  /\ mpc' = "m_act"
             ELSE /\ mpc' = "m_idle"
                  /\ hist' = [hist EXCEPT !.synthHit = FALSE]
                  /\ UNCHANGED <<mon, idle_notified>>
    /\ UNCHANGED <<now, hw, ignore_activity, mon_stop_event, mon_is_running, schedVars, cpc>>
    /\ slept' = [slept EXCEPT !.mon = 0]
    /\ UNCHANGED appVars
    /\ UNCHANGED config
    /\ UNCHANGED protVars
    /\ UNCHANGED handlerVars

\* _on_user_activity, entry: nothing to do unless the scheduler is running.
MActivity ==
    /\ mpc = "m_act"
    /\ mpc' = IF st.is_running THEN "m_act_do" ELSE "m_idle"
    /\ UNCHANGED <<now, hw, prev, mon, idle_notified, ignore_activity, mon_stop_event, mon_is_running, schedVars, cpc, hist>>
    /\ slept' = [slept EXCEPT !.mon = 0]
    /\ UNCHANGED appVars
    /\ UNCHANGED config
    /\ UNCHANGED protVars
    /\ UNCHANGED handlerVars

\* _on_user_activity, body: set the pause flag, stamp the pause start,
\* publish WAITING_IDLE.
MActivityPause ==
    /\ mpc = "m_act_do"
    /\ pause_event' = TRUE
    /\ resume_event' = FALSE
    /\ pause_start' = IF pause_start = None THEN now ELSE pause_start
    /\ st' = [st EXCEPT !.phase = "WAITING_IDLE", !.is_user_active = TRUE,
                        !.idle_wait_remaining = IntSec(config.user_idle_timeout),
                        !.last_action = "Paused"]
    /\ hist' = EdgeServed(hist)
    /\ mpc' = "m_idle"
    /\ UNCHANGED <<now, hw, prev, mon, idle_notified, ignore_activity, mon_stop_event, mon_is_running, stop_event, start_time, paused_time, last_app_switch_time, spc, loc, cpc>>
    /\ slept' = [slept EXCEPT !.mon = 0]
    /\ UNCHANGED appVars
    /\ UNCHANGED config
    /\ UNCHANGED protVars
    /\ UNCHANGED handlerVars

\* Early variant: the comparison is short by one tick.
IdleTimeoutReached_Early == now - mon.last_activity_time >= config.user_idle_timeout - 1

\* elapsed >= self.idle_timeout
IdleTimeoutReached == now - mon.last_activity_time >= config.user_idle_timeout

\* Variant without the notified flag: every idle check notifies.
ShouldNotifyIdle_Always == TRUE

\* not self._idle_notified
ShouldNotifyIdle == ~idle_notified

\* _poll_thread_func, idle check (under the state lock): once the idle
\* timeout has passed since the last activity and no notification is
\* outstanding, mark it notified and call on_idle.
MIdleCheck ==
    /\ mpc = "m_idle"
    /\ IF mon.last_activity_time > 0 /\ IdleTimeoutReached
       THEN /\ mon' = [mon EXCEPT !.is_user_active = FALSE]
            /\ IF ShouldNotifyIdle
               THEN /\ idle_notified' = TRUE
                    /\ hist' = [hist EXCEPT !.armedBy = "idle", !.lastIdleArm = hist.armedBy]
                    /\ mpc' = "m_onidle"
               ELSE /\ mpc' = "m_top"
                    /\ UNCHANGED <<idle_notified, hist>>
       ELSE /\ mpc' = "m_top"
            /\ UNCHANGED <<mon, idle_notified, hist>>
    /\ UNCHANGED <<now, hw, prev, ignore_activity, mon_stop_event, mon_is_running, schedVars, cpc>>
    /\ slept' = [slept EXCEPT !.mon = 0]
    /\ UNCHANGED appVars
    /\ UNCHANGED config
    /\ UNCHANGED protVars
    /\ UNCHANGED handlerVars

\* _on_user_idle, entry: nothing to do unless the scheduler is running.
MIdle ==
    /\ mpc = "m_onidle"
    /\ mpc' = IF st.is_running THEN "m_onidle_do" ELSE "m_top"
    /\ UNCHANGED <<now, hw, prev, mon, idle_notified, ignore_activity, mon_stop_event, mon_is_running, schedVars, cpc, hist>>
    /\ slept' = [slept EXCEPT !.mon = 0]
    /\ UNCHANGED appVars
    /\ UNCHANGED config
    /\ UNCHANGED protVars
    /\ UNCHANGED handlerVars

\* Variant that leaves the app-switch timer alone on resume.
ResumeSwitchBaseline_Kept == last_app_switch_time

\* _on_user_idle: "Reset app switch timer on resume".
ResumeSwitchBaseline == now

\* Variant that measures the pause from the start of the run.
PauseLength_SinceStart == now - start_time

\* time.time() - self._pause_start: the length of the pause that ends.
PauseLength == now - pause_start

\* _on_user_idle, body: add the finished pause to the pause total, restart
\* the app-switch timer, clear the pause flag, publish the resume.
MIdleResume ==
    /\ mpc = "m_onidle_do"
    /\ paused_time' = IF pause_start # None THEN paused_time + PauseLength ELSE paused_time
    /\ pause_start' = None
    /\ last_app_switch_time' = ResumeSwitchBaseline
    /\ pause_event' = FALSE
    /\ resume_event' = TRUE
    /\ st' = [st EXCEPT !.is_user_active = FALSE, !.idle_wait_remaining = 0,
                        !.last_action = "Resumed"]
    /\ mpc' = "m_top"
    /\ hist' = IF pause_event THEN [hist EXCEPT !.resumeAt = now] ELSE hist
    /\ UNCHANGED <<now, hw, prev, mon, idle_notified, ignore_activity, mon_stop_event, mon_is_running, stop_event, start_time, spc, loc, cpc>>
    /\ slept' = [slept EXCEPT !.mon = 0]
    /\ UNCHANGED appVars
    /\ UNCHANGED config
    /\ UNCHANGED protVars
    /\ UNCHANGED handlerVars

\* IdleDetector.start() past its running test: stamp the state, re-arm the
\* notification, forget the previous key states, start a polling thread (the
\* one _poll_thread then refers to), set the running flag.
IdleDetectorStartBody ==
    /\ mon' = [mon EXCEPT !.last_activity_time = now, !.is_user_active = TRUE]
    /\ idle_notified' = FALSE
    /\ mon_stop_event' = FALSE
    /\ prev' = [i \in Inputs |-> FALSE]
    /\ mpc' = "m_top"
    /\ mon_is_running' = TRUE
    /\ UNCHANGED <<ignore_activity>>

\* IdleDetector.start(), the whole call: refused while running.
IdleDetectorStart ==
    IF mon_is_running
    THEN UNCHANGED <<monVars>>
    ELSE IdleDetectorStartBody

\* IdleDetector.stop() up to the join: signal the polling thread.
IdleDetectorStopSignal ==
    /\ mon_stop_event' = TRUE
    /\ UNCHANGED <<prev, mon, idle_notified, ignore_activity, mon_is_running, mpc>>

\* Variant that does not wait for the polling thread.
IdleDetectorStopJoined_NoJoin ==
    /\ mon_is_running' = FALSE
    /\ UNCHANGED <<prev, mon, idle_notified, ignore_activity, mon_stop_event, mpc>>

\* IdleDetector.stop() from the join on: the polling thread has ended.
IdleDetectorStopJoined ==
    /\ mpc \in {"none", "done"}
    /\ mon_is_running' = FALSE
    /\ UNCHANGED <<prev, mon, idle_notified, ignore_activity, mon_stop_event, mpc>>

\* A client calls IdleDetector.start(): the running test (return False while
\* running).
MonStart ==
    /\ cpc = "idle"
    /\ cpc' = IF mon_is_running THEN "idle" ELSE "mstart"
    /\ UNCHANGED <<now, hw, monVars, schedVars, hist>>
    /\ UNCHANGED slept
    /\ UNCHANGED appVars
    /\ UNCHANGED config
    /\ UNCHANGED protVars
    /\ UNCHANGED handlerVars

\* The client's IdleDetector.start() after the test.
MonStartBody ==
    /\ cpc = "mstart"
    /\ IdleDetectorStartBody
    /\ cpc' = "idle"
    /\ hist' = LoopStarted(Rearmed(hist))
    /\ UNCHANGED <<now, hw, schedVars>>
    /\ slept' = [slept EXCEPT !.mon = 0]
    /\ UNCHANGED appVars
    /\ UNCHANGED config
    /\ UNCHANGED protVars
    /\ UNCHANGED handlerVars

\* Another thread calls IdleDetector.start() (the whole call).
MonStartOther ==
    /\ IdleDetectorStart
    /\ hist' = IF mon_is_running THEN hist ELSE LoopStarted(Rearmed(hist))
    /\ UNCHANGED <<now, hw, schedVars, cpc>>
    /\ slept' = IF mon_is_running THEN slept ELSE [slept EXCEPT !.mon = 0]
    /\ UNCHANGED appVars
    /\ UNCHANGED config
    /\ UNCHANGED protVars
    /\ UNCHANGED handlerVars

\* A client calls IdleDetector.stop().
MonStop ==
    /\ cpc = "idle"
    /\ IF mon_is_running
       THEN IdleDetectorStopSignal /\ cpc' = "mstop_join"
       ELSE UNCHANGED <<monVars, cpc>>
    /\ UNCHANGED <<now, hw, schedVars, hist>>
    /\ UNCHANGED slept
    /\ UNCHANGED appVars
    /\ UNCHANGED config
    /\ UNCHANGED protVars
    /\ UNCHANGED handlerVars

\* The client's IdleDetector.stop() returns from its join.
MonStopJoin ==
    /\ cpc = "mstop_join"
    /\ IdleDetectorStopJoined
    /\ cpc' = "idle"
    /\ UNCHANGED <<now, hw, schedVars, hist>>
    /\ UNCHANGED slept
    /\ UNCHANGED appVars
    /\ UNCHANGED config
    /\ UNCHANGED protVars
    /\ UNCHANGED handlerVars

\* A client calls IdleDetector.reset().
MonReset ==
    /\ cpc = "idle"
    /\ MonLockFree
    /\ mon' = [mon EXCEPT !.last_activity_time = now, !.is_user_active = TRUE]
    /\ idle_notified' = FALSE
    /\ hist' = Rearmed(hist)
    /\ UNCHANGED <<now, hw, prev, ignore_activity, mon_stop_event, mon_is_running, mpc, schedVars, cpc>>
    /\ UNCHANGED slept
    /\ UNCHANGED appVars
    /\ UNCHANGED config
    /\ UNCHANGED protVars
    /\ UNCHANGED handlerVars

\* suppress_activity()
SuppressActivity == ignore_activity' = TRUE

\* Variant that leaves the flag as it is.
RestoreActivity_Never == UNCHANGED ignore_activity

\* restore_activity()
RestoreActivity == ignore_activity' = FALSE

\* A client calls suppress_activity().
MonSuppress ==
    /\ cpc = "idle"
    /\ ~ignore_activity
    /\ SuppressActivity
    /\ UNCHANGED <<now, hw, prev, mon, idle_notified, mon_stop_event, mon_is_running, mpc, schedVars, cpc, hist>>
    /\ UNCHANGED slept
    /\ UNCHANGED appVars
    /\ UNCHANGED config
    /\ UNCHANGED protVars
    /\ UNCHANGED handlerVars

\* A client calls restore_activity().
MonRestore ==
    /\ cpc = "idle"
    /\ ignore_activity
    /\ RestoreActivity
    /\ UNCHANGED <<now, hw, prev, mon, idle_notified, mon_stop_event, mon_is_running, mpc, schedVars, cpc, hist>>
    /\ UNCHANGED slept
    /\ UNCHANGED appVars
    /\ UNCHANGED config
    /\ UNCHANGED protVars
    /\ UNCHANGED handlerVars

\* The monitor used on its own, driven through its public API.
NextMon ==
    \/ Tick
    \/ \E i \in Inputs : Press(i)
    \/ \E i \in Inputs : Release(i)
    \/ MTop \/ MSample \/ MActivity \/ MIdleCheck \/ MIdle
    \/ MonStart \/ MonStartBody \/ MonStartOther
    \/ MonStop \/ MonStopJoin \/ MonReset \/ MonSuppress \/ MonRestore

SpecMon == Init /\ [][NextMon]_vars

\* -------------------------------------------------------- AutomationScheduler
\* _thread.is_alive()
ThreadAlive == spc \notin {"none", "done"}

\* History of the scheduling loop being left: unless a stop() made before the
\* budget ran out has already settled it, the run ends on expiry, or on a
\* stop() that came with the budget already used up ("stop_late").
LoopLeft(h) ==
    IF h.exitReason # "none" THEN h
    ELSE [h EXCEPT !.exitReason = IF stop_event THEN "stop_late" ELSE "expired"]

\* _check_runtime_expired(): wall time since start less the accumulated
\* pause total, against total_runtime.
CheckRuntimeExpired ==
    IF start_time = None THEN FALSE
    ELSE now - start_time - paused_time >= Secs(config.total_runtime)

\* _get_runtime_remaining(): whole seconds left, never below 0.
GetRuntimeRemaining ==
    IF start_time = None THEN config.total_runtime
    ELSE Max(0, IntSec(Secs(config.total_runtime) - (now - start_time - paused_time)))

\* The scheduling thread's next step evaluates _check_runtime_expired(): at
\* the loop heads and after _active_phase unless the stop event is set, in
\* the wait loop while paused, in the action countdown while it runs, and in
\* the finally clause.
ExpiryCheckedNow ==
    \/ spc \in {"loop", "a_top", "after_active", "i_top"} /\ ~stop_event
    \/ spc = "w_loop" /\ pause_event /\ ~stop_event
    \/ spc = "a_wait" /\ ~stop_event /\ ~pause_event /\ now - loc.action_start < loc.interval
    \/ spc = "fin"

\* History of a step of the scheduling thread: an expiry check that returned
\* True is remembered for the rest of the run.
ExpiryChecked(h) ==
    IF ExpiryCheckedNow /\ CheckRuntimeExpired THEN [h EXCEPT !.expiredSeen = TRUE] ELSE h

\* random.uniform(action_interval_min, action_interval_max), in ticks: a
\* value between the two bounds, whichever of them is the larger.
ActionIntervals == Min(config.action_interval_min, config.action_interval_max) .. Max(config.action_interval_min, config.action_interval_max)

\* int(random.uniform(0, click_phase_max)): whole seconds of click pre-delay.
ClickDelays == 0 .. IntSec(config.click_phase_max)

\* random.randint(max(1, idle_min), max(1, idle_max)), in seconds.
IdleDurations == Max(1, config.idle_min) .. Max(1, config.idle_max)

\* History at the start of a run.
HistRun(h) == [h EXCEPT !.expiredSeen = FALSE, !.switchTried = FALSE, !.waitTicks = 0, !.phaseWait = 0, !.resumeAt = None, !.exitReason = "none", !.expiredCalls = 0,
                        !.edge = "none", !.edgeInput = "none", !.runs = @ + 1,
                        !.ret = "start_true", !.stops = 0]

\* Variant of the refusal that restarts the run's timing.
StartRefused_RestartsTiming ==
    /\ start_time' = now
    /\ paused_time' = 0
    /\ UNCHANGED <<monVars, st, stop_event, pause_event, resume_event, pause_start, last_app_switch_time, spc, loc>>

\* start() while the scheduling thread lives: return False, nothing else.
StartRefused == UNCHANGED <<monVars, schedVars>>

\* start(): refused while the scheduling thread lives; else clear the
\* events, reset the run's timing, publish the initial state, start the
\* detector and the scheduling thread.
Start ==
    /\ cpc = "idle"
    /\ ThreadAlive \/ hist.runs < MaxRuns
    /\ IF ThreadAlive
       THEN /\ StartRefused
            /\ hist' = hist
       ELSE /\ stop_event' = FALSE
            /\ pause_event' = FALSE
            /\ resume_event' = TRUE
            /\ start_time' = now
            /\ paused_time' = 0
            /\ pause_start' = None
            /\ last_app_switch_time' = now
            /\ st' = [st EXCEPT !.is_running = TRUE, !.cycle_count = 0,
                                !.last_action = "Starting", 
                                !.runtime_remaining = config.total_runtime,
                                !.is_user_active = FALSE, !.idle_wait_remaining = 0]
            /\ IdleDetectorStart
            /\ spc' = "loop"
            /\ loc' = Loc0
            /\ hist' = IF mon_is_running THEN HistRun(hist) ELSE LoopStarted(Rearmed(HistRun(hist)))
    /\ UNCHANGED <<now, hw, cpc>>
    /\ slept' = IF ThreadAlive THEN slept
                ELSE [mon |-> IF mon_is_running THEN slept.mon ELSE 0, sch |-> 0]
    /\ UNCHANGED appVars
    /\ UNCHANGED config
    /\ UNCHANGED protVars
    /\ UNCHANGED handlerVars

\* History of a stop() call.
StopCalled(h) == [h EXCEPT !.stops = IF @ < 2 THEN @ + 1 ELSE @]

\* start() while the scheduling thread lives, with its return value noted.
StartWhileAlive ==
    /\ cpc = "idle"
    /\ ThreadAlive
    /\ StartRefused
    /\ hist' = [hist EXCEPT !.ret = "start_false"]
    /\ UNCHANGED <<now, hw, cpc, config, slept, appVars, protVars, handlerVars>>

\* stop(), up to the first join: without a live thread only the detector
\* is stopped; else set the stop event, clear the pause, signal the detector.
Stop ==
    /\ cpc = "idle"
    /\ IF ~ThreadAlive
       THEN /\ IF mon_is_running
               THEN IdleDetectorStopSignal /\ cpc' = "mstop_join"
               ELSE UNCHANGED <<monVars, cpc>>
            /\ UNCHANGED <<schedVars>>
            /\ hist' = StopCalled(hist)
       ELSE /\ stop_event' = TRUE
            /\ pause_event' = FALSE
            /\ resume_event' = TRUE
            /\ hist' = LET h == IF spc = "x_click" /\ hist.clickDelay = "quiet"
                                 THEN [hist EXCEPT !.clickDelay = "stopped"]
                                 ELSE hist
                       IN IF hist.exitReason = "none" /\ ~CheckRuntimeExpired
                          THEN StopCalled([h EXCEPT !.exitReason = "stop"])
                          ELSE StopCalled(h)
            /\ IF mon_is_running
               THEN IdleDetectorStopSignal /\ cpc' = "stop_join_mon"
               ELSE UNCHANGED <<monVars>> /\ cpc' = "stop_join_thr"
            /\ UNCHANGED <<st, start_time, paused_time, pause_start, last_app_switch_time, spc, loc>>
    /\ UNCHANGED <<now, hw>>
    /\ UNCHANGED slept
    /\ UNCHANGED appVars
    /\ UNCHANGED config
    /\ UNCHANGED protVars
    /\ UNCHANGED handlerVars

\* stop(): the detector's polling thread has been joined.
StopJoinMonitor ==
    /\ cpc = "stop_join_mon"
    /\ IdleDetectorStopJoined
    /\ cpc' = "stop_join_thr"
    /\ UNCHANGED <<now, hw, schedVars, hist>>
    /\ UNCHANGED slept
    /\ UNCHANGED appVars
    /\ UNCHANGED config
    /\ UNCHANGED protVars
    /\ UNCHANGED handlerVars

\* stop(): the scheduling thread has been joined; publish Stopped.
StopJoinThread ==
    /\ cpc = "stop_join_thr"
    /\ ~ThreadAlive
    /\ st' = [st EXCEPT !.phase = "STOPPED", !.is_running = FALSE, !.last_action = "Stopped"]
    /\ cpc' = "idle"
    /\ UNCHANGED <<now, hw, monVars, stop_event, pause_event, resume_event, start_time, paused_time, pause_start, last_app_switch_time, spc, loc, hist>>
    /\ UNCHANGED slept
    /\ UNCHANGED appVars
    /\ UNCHANGED config
    /\ UNCHANGED protVars
    /\ UNCHANGED handlerVars

\* _wait_for_resume_or_stop() on finding the pause flag set; then is where a
\* resume continues.
EnterWait(then) ==
    /\ loc' = [loc EXCEPT !.wret = then]
    /\ spc' = "w_enter"
    /\ UNCHANGED <<st, hist>>

\* Where the thread goes when a phase function returns.
PhaseReturn == IF loc.wret = "i_calc" THEN "loop" ELSE "after_active"

\* Variant that counts a cycle twice.
NextCycle_Twice(c) == c + 2

\* cycle_count += 1
NextCycle(c) == c + 1

\* _automation_loop, loop head, and the entry of _active_phase: leave on
\* stop or expiry; else count the cycle and publish ACTIVE; the foreground
\* window query that follows may raise, which ends the loop.
SLoop ==
    /\ spc = "loop"
    /\ IF stop_event \/ CheckRuntimeExpired
       THEN /\ spc' = "fin"
            /\ hist' = ExpiryChecked(LoopLeft(hist))
            /\ UNCHANGED <<st, loc>>
       ELSE /\ st' = [st EXCEPT !.cycle_count = NextCycle(loc.cycle_count), !.phase = "ACTIVE"]
            /\ loc' = [loc EXCEPT !.cycle_count = NextCycle(@), !.phase_start = now,
                                  !.duration = Secs(config.active_duration), !.wret = "a_calc"]
            /\ \/ /\ spc' = "a_top"
                  /\ hist' = [hist EXCEPT !.phaseWait = 0]
               \/ /\ spc' = "fin"
                  /\ hist' = IF hist.exitReason = "none"
                             THEN [hist EXCEPT !.exitReason = "error"] ELSE hist
    /\ UNCHANGED <<now, hw, monVars, stop_event, pause_event, resume_event, start_time, paused_time, pause_start, last_app_switch_time, cpc>>
    /\ slept' = [slept EXCEPT !.sch = 0]
    /\ UNCHANGED appVars
    /\ UNCHANGED config
    /\ UNCHANGED protVars
    /\ UNCHANGED handlerVars

\* _active_phase, loop head: stop and expiry checks, then
\* _wait_for_resume_or_stop().
SActiveTop ==
    /\ spc = "a_top"
    /\ IF stop_event \/ CheckRuntimeExpired
       THEN /\ spc' = "after_active"
            /\ hist' = ExpiryChecked(hist)
            /\ UNCHANGED <<st, loc>>
       ELSE IF pause_event
       THEN EnterWait("a_calc")
       ELSE /\ spc' = "a_calc"
            /\ UNCHANGED <<st, loc, hist>>
    /\ UNCHANGED <<now, hw, monVars, stop_event, pause_event, resume_event, start_time, paused_time, pause_start, last_app_switch_time, cpc>>
    /\ slept' = [slept EXCEPT !.sch = 0]
    /\ UNCHANGED appVars
    /\ UNCHANGED config
    /\ UNCHANGED protVars
    /\ UNCHANGED handlerVars

\* _wait_for_resume_or_stop(), before the wait loop: read seconds_until_idle
\* (under the detector's state lock), publish the countdown and WAITING_IDLE.
SWaitEnter ==
    /\ spc = "w_enter"
    /\ MonLockFree
    /\ st' = [st EXCEPT !.idle_wait_remaining = IntSec(SecondsUntilIdle),
                        !.runtime_remaining = GetRuntimeRemaining,
                        !.phase = "WAITING_IDLE"]
    /\ hist' = EdgeServed(hist)
    /\ spc' = "w_loop"
    /\ UNCHANGED <<now, hw, monVars, stop_event, pause_event, resume_event, start_time, paused_time, pause_start, last_app_switch_time, loc, cpc>>
    /\ slept' = [slept EXCEPT !.sch = 0]
    /\ UNCHANGED appVars
    /\ UNCHANGED config
    /\ UNCHANGED protVars
    /\ UNCHANGED handlerVars

\* _wait_for_resume_or_stop(), the wait loop's test: give up on expiry, go on
\* waiting while paused, leave once the pause flag is clear or stop is set.
SWaitLoop ==
    /\ spc = "w_loop"
    /\ spc' = IF pause_event /\ ~stop_event
              THEN IF CheckRuntimeExpired THEN PhaseReturn ELSE "w_pub"
              ELSE IF stop_event THEN PhaseReturn ELSE loc.wret
    /\ hist' = ExpiryChecked(hist)
    /\ UNCHANGED <<now, hw, monVars, st, stop_event, pause_event, resume_event, start_time, paused_time, pause_start, last_app_switch_time, loc, cpc>>
    /\ slept' = [slept EXCEPT !.sch = 0]
    /\ UNCHANGED appVars
    /\ UNCHANGED config
    /\ UNCHANGED protVars
    /\ UNCHANGED handlerVars

\* _wait_for_resume_or_stop(), the wait loop's body: refresh the countdown
\* and the remaining runtime, then sleep.
SWaitPublish ==
    /\ spc = "w_pub"
    /\ MonLockFree
    /\ st' = [st EXCEPT !.idle_wait_remaining = IntSec(SecondsUntilIdle),
                        !.runtime_remaining = GetRuntimeRemaining]
    /\ spc' = "w_loop"
    /\ UNCHANGED <<now, hw, monVars, stop_event, pause_event, resume_event, start_time, paused_time, pause_start, last_app_switch_time, loc, cpc, hist>>
    /\ slept' = [slept EXCEPT !.sch = 0]
    /\ UNCHANGED appVars
    /\ UNCHANGED config
    /\ UNCHANGED protVars
    /\ UNCHANGED handlerVars

\* _active_phase: end of the phase once its duration is used up; else
\* publish ACTIVE and draw the next action interval.
SActiveCalc ==
    /\ spc = "a_calc"
    /\ IF IntSec(loc.duration - (now - loc.phase_start)) <= 0
       THEN /\ spc' = "after_active"
            /\ UNCHANGED <<st, loc>>
       ELSE /\ st' = [st EXCEPT !.runtime_remaining = GetRuntimeRemaining, !.phase = "ACTIVE"]
            /\ \E iv \in ActionIntervals :
                  loc' = [loc EXCEPT !.interval = iv, !.action_start = now]
            /\ spc' = "a_wait"
    /\ UNCHANGED <<now, hw, monVars, stop_event, pause_event, resume_event, start_time, paused_time, pause_start, last_app_switch_time, cpc, hist>>
    /\ slept' = [slept EXCEPT !.sch = 0]
    /\ UNCHANGED appVars
    /\ UNCHANGED config
    /\ UNCHANGED protVars
    /\ UNCHANGED handlerVars

\* _active_phase, the countdown to the next action.
SActiveWait ==
    /\ spc = "a_wait"
    /\ IF ~stop_event /\ ~pause_event
       THEN IF now - loc.action_start >= loc.interval
            THEN /\ spc' = "a_post"
                 /\ UNCHANGED <<st>>
            ELSE IF CheckRuntimeExpired
            THEN /\ spc' = "after_active"
                 /\ UNCHANGED <<st>>
            ELSE /\ st' = [st EXCEPT !.runtime_remaining = GetRuntimeRemaining]
                 /\ spc' = "a_wait"
       ELSE /\ spc' = "a_post"
            /\ UNCHANGED <<st>>
    /\ hist' = ExpiryChecked(hist)
    /\ UNCHANGED <<now, hw, monVars, stop_event, pause_event, resume_event, start_time, paused_time, pause_start, last_app_switch_time, loc, cpc>>
    /\ slept' = [slept EXCEPT !.sch = 0]
    /\ UNCHANGED appVars
    /\ UNCHANGED config
    /\ UNCHANGED protVars
    /\ UNCHANGED handlerVars

\* Variant that asks for an app switch after every wait.
ShouldSwitchApp_Always == TRUE

\* _active_phase: should_switch_app.
ShouldSwitchApp == now - last_app_switch_time >= config.app_switch_interval

\* _active_phase after the countdown: wait out a pause and start over, or
\* return on stop, or pick the action: an app switch once app_switch_interval
\* has passed since the last one, else a weighted random general action.
SActivePost ==
    /\ spc = "a_post"
    /\ IF pause_event
       THEN IF stop_event
            THEN /\ spc' = "after_active"
                 /\ UNCHANGED <<st, loc, hist>>
            ELSE EnterWait("a_top")
       ELSE IF stop_event
       THEN /\ spc' = "after_active"
            /\ UNCHANGED <<st, loc, hist>>
       ELSE /\ IF ShouldSwitchApp
               THEN loc' = [loc EXCEPT !.action = "APP_SWITCH", !.interval = None, !.action_start = None]
               ELSE \E a \in GeneralActions :
                       loc' = [loc EXCEPT !.action = a, !.interval = None, !.action_start = None]
            /\ spc' = "x_begin"
            /\ UNCHANGED <<st, hist>>
    /\ UNCHANGED <<now, hw, monVars, stop_event, pause_event, resume_event, start_time, paused_time, pause_start, last_app_switch_time, cpc>>
    /\ slept' = [slept EXCEPT !.sch = 0]
    /\ UNCHANGED appVars
    /\ UNCHANGED config
    /\ UNCHANGED protVars
    /\ UNCHANGED handlerVars

\* _execute_action / _execute_app_switch, entry: skipped when paused; else
\* suppress the detector and query the foreground window (which may raise);
\* a safe click then draws its pre-delay.
SActionBegin ==
    /\ spc = "x_begin"
    /\ IF pause_event
       THEN /\ loc' = [loc EXCEPT !.desc = "Skipped"]
            /\ spc' = "x_end"
            /\ UNCHANGED <<ignore_activity, hist>>
       ELSE /\ SuppressActivity
            /\ \/ /\ loc' = [loc EXCEPT !.desc = "Error"]
                  /\ spc' = "x_end"
                  /\ hist' = hist
               \/ /\ loc.action = "MOUSE_CLICK"
                  /\ \E d \in ClickDelays : loc' = [loc EXCEPT !.click_left = d]
                  /\ spc' = "x_click"
                  /\ hist' = [hist EXCEPT !.clickDelay = "quiet"]
               \/ /\ loc.action # "MOUSE_CLICK"
                  /\ loc' = loc
                  /\ spc' = "x_inject"
                  /\ hist' = hist
    /\ UNCHANGED <<now, hw, prev, mon, idle_notified, mon_stop_event, mon_is_running, mpc, st, stop_event, pause_event, resume_event, start_time, paused_time, pause_start, last_app_switch_time, cpc>>
    /\ slept' = [slept EXCEPT !.sch = 0]
    /\ UNCHANGED appVars
    /\ UNCHANGED config
    /\ UNCHANGED protVars
    /\ UNCHANGED handlerVars

\* _execute_action, the safe click's interruptible pre-delay: cancelled on
\* stop or pause, one second per round, then the final check before the click.
SClickDelay ==
    /\ spc = "x_click"
    /\ IF stop_event \/ pause_event
       THEN /\ loc' = [loc EXCEPT !.desc = "Cancelled", !.click_left = 0]
            /\ spc' = "x_end"
            /\ hist' = [hist EXCEPT !.clickDelay = "none"]
       ELSE IF loc.click_left > 0
       THEN /\ loc' = [loc EXCEPT !.click_left = @ - 1]
            /\ spc' = "x_click"
            /\ hist' = hist
       ELSE /\ loc' = loc
            /\ spc' = "x_inject"
            /\ hist' = [hist EXCEPT !.clickDelay = "none"]
    /\ UNCHANGED <<now, hw, monVars, st, stop_event, pause_event, resume_event, start_time, paused_time, pause_start, last_app_switch_time, cpc>>
    /\ slept' = [slept EXCEPT !.sch = 0]
    /\ UNCHANGED appVars
    /\ UNCHANGED config
    /\ UNCHANGED protVars
    /\ UNCHANGED handlerVars

\* The ActionExecutor call that injects input (move_mouse_random,
\* safe_click, shortcut_ctrl_tab, scroll_sequence, switch_to_window) starts.
SInject ==
    /\ spc = "x_inject"
    /\ loc' = loc
    /\ spc' = "x_running"
    /\ UNCHANGED <<now, hw, monVars, st, stop_event, pause_event, resume_event, start_time, paused_time, pause_start, last_app_switch_time, cpc, hist>>
    /\ slept' = [slept EXCEPT !.sch = 0]
    /\ UNCHANGED appVars
    /\ UNCHANGED config
    /\ UNCHANGED protVars
    /\ UNCHANGED handlerVars

\* _is_chrome(title) of the window with handle h.
IsChrome(h) == \E k \in DOMAIN visible_windows : visible_windows[k].hwnd = h /\ visible_windows[k].chrome

\* _chrome_windows after _refresh_window_list().
ChromeWindows == SelectSeq(visible_windows, LAMBDA w : w.chrome)

\* Variant that always picks the first window of the list.
NextInCycle_First(ws, idx, cur, left) == [found |-> TRUE, index |-> 0, hwnd |-> ws[1].hwnd, examined |-> <<0>>]

\* Variant that takes no window for minimized.
IsWindowMinimized_Never(h) == FALSE

\* window_manager.is_window_minimized(hwnd).
IsWindowMinimized(h) == h \in minimized

\* The cursor loop of _get_next_app_round_robin and _switch_chrome_window:
\* advance the cursor idx cyclically over ws, at most left times, to the
\* first window that is neither the current one nor minimized; examined
\* lists the cursor positions looked at, in order.
RECURSIVE NextInCycle(_, _, _, _)
NextInCycle(ws, idx, cur, left) ==
    IF left = 0 THEN [found |-> FALSE, index |-> idx, hwnd |-> 0, examined |-> <<>>]
    ELSE LET j == (idx + 1) % Len(ws)
         IN IF ws[j + 1].hwnd # cur /\ ~IsWindowMinimized(ws[j + 1].hwnd)
            THEN [found |-> TRUE, index |-> j, hwnd |-> ws[j + 1].hwnd, examined |-> <<j>>]
            ELSE [NextInCycle(ws, j, cur, left - 1) EXCEPT !.examined = <<j>> \o @]

\* _get_next_app_round_robin() from its emptiness test on, over the known
\* windows ws, with cur the foreground window's handle.
NextAppIn(ws, idx, cur) ==
    IF Len(ws) = 0 THEN [found |-> FALSE, index |-> idx, hwnd |-> 0, examined |-> <<>>]
    ELSE NextInCycle(ws, idx, cur, Len(ws))

\* _get_next_app_round_robin() over a window list that is not refreshed.
GetNextAppRoundRobin(idx, cur) == NextAppIn(visible_windows, idx, cur)

\* _switch_chrome_window(): needs two Chrome windows.
SwitchChromeWindow(idx, cur) ==
    IF Len(ChromeWindows) < 2 THEN [found |-> FALSE, index |-> idx, hwnd |-> 0, examined |-> <<>>]
    ELSE NextInCycle(ChromeWindows, idx, cur, Len(ChromeWindows))

\* _execute_app_switch(), the selection and the switch: the round-robin
\* candidate is drawn first; with a Chrome window in front and another one
\* open, a coin decides for the next Chrome window instead.  to is the window
\* switched to (0: none); switch_to_window() succeeds on every listed window,
\* which is then the foreground window.
ExecuteAppSwitch(coin) ==
    LET rr == GetNextAppRoundRobin(app_cycle_index, foreground)
        c == SwitchChromeWindow(chrome_window_index, foreground)
    IN IF ~rr.found
       THEN [aci |-> rr.index, cwi |-> chrome_window_index, fg |-> foreground, to |-> 0]
       ELSE IF IsChrome(foreground) /\ Len(ChromeWindows) > 1 /\ coin /\ c.found
       THEN [aci |-> rr.index, cwi |-> c.index, fg |-> c.hwnd, to |-> c.hwnd]
       ELSE [aci |-> rr.index,
             cwi |-> IF IsChrome(foreground) /\ Len(ChromeWindows) > 1 /\ coin THEN c.index ELSE chrome_window_index,
             fg |-> rr.hwnd, to |-> rr.hwnd]

\* History of a switch to window w: a round of Len(visible_windows) switches
\* is followed by the next round.
Switched(h, w) ==
    IF w = 0 THEN h
    ELSE [h EXCEPT !.switched = IF Len(@) >= Len(visible_windows) THEN <<w>> ELSE Append(@, w)]

\* The state after an app switch with result r.
AppSwitched(r) ==
    /\ app_cycle_index' = r.aci
    /\ chrome_window_index' = r.cwi
    /\ UNCHANGED <<refresh_due, sw>>
    /\ foreground' = r.fg
    /\ visible_windows' = visible_windows
    /\ minimized' = minimized
    /\ hist' = Switched(hist, r.to)

\* One app-switch tick on its own: _execute_app_switch() runs to its end.
AppSwitchTick ==
    /\ \E coin \in BOOLEAN : AppSwitched(ExecuteAppSwitch(coin))
    /\ UNCHANGED <<now, hw, monVars, schedVars, cpc, config, slept, protVars, handlerVars>>

\* Repeated app-switch ticks over a static window list.
NextApps == AppSwitchTick

SpecApps == InitApps /\ [][NextApps]_vars

\* ----- the round-robin selector on its own, on a desktop that changes
\* The handles the windows of the desktop can have.
Hwnds == 1..MaxWindows

\* The windows with handles in S, in the order EnumWindows reports them.
WindowsOf(S) == SelectSeq(WindowList(MaxWindows, {}), LAMBDA w : w.hwnd \in S)

\* _known_windows after _refresh_window_list(): the list as it was when the
\* last refresh is less than 5 seconds old, else what get_visible_windows()
\* finds, any windows of the desktop that are not minimized.
RefreshedWindowLists == {visible_windows} \cup {WindowsOf(S) : S \in SUBSET (Hwnds \ minimized)}

\* Before the first call no window is known; any window, or none, is in
\* front and any other windows are minimized.
InitSelect ==
    /\ InitProgram
    /\ config = Config
    /\ visible_windows = <<>>
    /\ foreground \in {0} \cup Hwnds
    /\ minimized \in SUBSET (Hwnds \ {foreground})

\* One call of _get_next_app_round_robin(): refresh, then the cursor loop.
SelectNextApp ==
    /\ \E ws \in RefreshedWindowLists :
          LET r == NextAppIn(ws, app_cycle_index, foreground)
          IN /\ visible_windows' = ws
             /\ app_cycle_index' = r.index
             /\ hist' = [hist EXCEPT !.select = [found |-> r.found, hwnd |-> r.hwnd, examined |-> r.examined,
                                                 known |-> ws, current |-> foreground, iconic |-> minimized]]
    /\ UNCHANGED <<foreground, minimized, chrome_window_index, refresh_due, sw>>
    /\ UNCHANGED <<now, hw, monVars, schedVars, cpc, config, slept, protVars, handlerVars>>

\* The user minimizes window h; a minimized window is not in front.
MinimizeWindow(h) ==
    /\ h \notin minimized
    /\ minimized' = minimized \cup {h}
    /\ foreground' = IF foreground = h THEN 0 ELSE foreground
    /\ UNCHANGED <<visible_windows, app_cycle_index, chrome_window_index, refresh_due, sw, hist>>
    /\ UNCHANGED <<now, hw, monVars, schedVars, cpc, config, slept, protVars, handlerVars>>

\* The user restores the minimized window h, which comes to the front.
RestoreWindow(h) ==
    /\ h \in minimized
    /\ minimized' = minimized \ {h}
    /\ foreground' = h
    /\ UNCHANGED <<visible_windows, app_cycle_index, chrome_window_index, refresh_due, sw, hist>>
    /\ UNCHANGED <<now, hw, monVars, schedVars, cpc, config, slept, protVars, handlerVars>>

\* The user brings window h to the front (0: no window is in front).
ActivateWindow(h) ==
    /\ h \notin minimized
    /\ h # foreground
    /\ foreground' = h
    /\ UNCHANGED <<visible_windows, minimized, app_cycle_index, chrome_window_index, refresh_due, sw, hist>>
    /\ UNCHANGED <<now, hw, monVars, schedVars, cpc, config, slept, protVars, handlerVars>>

NextSelect ==
    \/ SelectNextApp
    \/ \E h \in Hwnds : MinimizeWindow(h)
    \/ \E h \in Hwnds : RestoreWindow(h)
    \/ \E h \in {0} \cup Hwnds : ActivateWindow(h)

SpecSelect == InitSelect /\ [][NextSelect]_vars

\* ----- one app-switch tick step by step, with switches that can fail
\* max_attempts of _execute_app_switch().
MaxAttempts == 5

\* Variant that leaves the refresh timer alone after a failed switch.
ForceRefresh_Kept == refresh_due

\* _last_window_refresh = 0 after a failed switch: the next refresh is due.
ForceRefresh == TRUE

\* _known_windows after _refresh_window_list(): what get_visible_windows()
\* finds when the refresh is due, else the list as it was.
KnownWindows == IF refresh_due THEN {WindowsOf(S) : S \in SUBSET (Hwnds \ minimized)} ELSE {visible_windows}

\* _execute_app_switch() is entered (no window in front is a Chrome window).
SwitchBegin ==
    /\ sw.pc \in {"idle", "done"}
    /\ sw' = [pc |-> "select", attempt |-> 0, next_app |-> 0, result |-> "none"]
    /\ hist' = [hist EXCEPT !.tick = [candidates |-> 0, stale |-> FALSE]]
    /\ UNCHANGED <<visible_windows, foreground, minimized, app_cycle_index, chrome_window_index, refresh_due>>
    /\ UNCHANGED <<now, hw, monVars, schedVars, cpc, config, slept, protVars, handlerVars>>

\* The loop body up to the switch: _get_next_app_round_robin(), and the
\* return when it finds no window.
SwitchSelect ==
    /\ sw.pc = "select"
    /\ \E ws \in KnownWindows :
          LET r == NextAppIn(ws, app_cycle_index, foreground)
          IN /\ visible_windows' = ws
             /\ app_cycle_index' = r.index
             /\ sw' = IF r.found
                      THEN [sw EXCEPT !.pc = "switch", !.next_app = r.hwnd]
                      ELSE [sw EXCEPT !.pc = "done", !.result = "No other visible windows"]
             /\ hist' = [hist EXCEPT !.tick = [candidates |-> IF r.found THEN @.candidates + 1 ELSE @.candidates,
                                               stale |-> @.stale \/ (sw.attempt > 0 /\ ~refresh_due)]]
    /\ refresh_due' = FALSE
    /\ UNCHANGED <<foreground, minimized, chrome_window_index>>
    /\ UNCHANGED <<now, hw, monVars, schedVars, cpc, config, slept, protVars, handlerVars>>

\* switch_to_window(next_app.hwnd) and what follows it: success returns the
\* description; failure (the window is gone, minimized or hidden, or the call
\* raised) forces the refresh and goes to the next attempt, if one is left.
SwitchToWindow ==
    /\ sw.pc = "switch"
    /\ \E ok \in BOOLEAN :
          /\ (sw.next_app \in minimized) => ~ok
          /\ IF ok
             THEN /\ foreground' = sw.next_app
                  /\ sw' = [sw EXCEPT !.pc = "done", !.result = "APP SWITCH"]
                  /\ UNCHANGED refresh_due
             ELSE /\ refresh_due' = ForceRefresh
                  /\ sw' = IF sw.attempt + 1 < MaxAttempts
                           THEN [sw EXCEPT !.pc = "select", !.attempt = @ + 1]
                           ELSE [sw EXCEPT !.pc = "done", !.attempt = @ + 1,
                                           !.result = "Could not switch - all windows failed"]
                  /\ UNCHANGED foreground
    /\ UNCHANGED <<visible_windows, minimized, app_cycle_index, chrome_window_index, hist>>
    /\ UNCHANGED <<now, hw, monVars, schedVars, cpc, config, slept, protVars, handlerVars>>

\* Five seconds have passed since the last refresh.
RefreshAges ==
    /\ ~refresh_due
    /\ refresh_due' = TRUE
    /\ UNCHANGED <<visible_windows, foreground, minimized, app_cycle_index, chrome_window_index, sw, hist>>
    /\ UNCHANGED <<now, hw, monVars, schedVars, cpc, config, slept, protVars, handlerVars>>

NextRetry ==
    \/ SwitchBegin \/ SwitchSelect \/ SwitchToWindow
    \/ RefreshAges
    \/ \E h \in Hwnds : MinimizeWindow(h)
    \/ \E h \in Hwnds : RestoreWindow(h)
    \/ \E h \in {0} \cup Hwnds : ActivateWindow(h)

\* The scheduling thread keeps running: a tick under way takes its next step.
SpecRetry == InitSelect /\ [][NextRetry]_vars /\ WF_vars(SwitchSelect) /\ WF_vars(SwitchToWindow)

\* The executor call sends the press event of its SendInput pair.
SynthDown ==
    /\ spc = "x_running"
    /\ loc.inject = "none" /\ InjectedInput(loc.action) # "none"
    /\ loc' = [loc EXCEPT !.inject = "down"]
    /\ UNCHANGED <<now, hw, monVars, st, stop_event, pause_event, resume_event, start_time, paused_time, pause_start, last_app_switch_time, spc, cpc, hist>>
    /\ UNCHANGED slept
    /\ UNCHANGED appVars
    /\ UNCHANGED config
    /\ UNCHANGED protVars
    /\ UNCHANGED handlerVars

\* The release event of the pair follows.
SynthUp ==
    /\ spc = "x_running"
    /\ loc.inject = "down"
    /\ loc' = [loc EXCEPT !.inject = "up"]
    /\ UNCHANGED <<now, hw, monVars, st, stop_event, pause_event, resume_event, start_time, paused_time, pause_start, last_app_switch_time, spc, cpc, hist>>
    /\ UNCHANGED slept
    /\ UNCHANGED appVars
    /\ UNCHANGED config
    /\ UNCHANGED protVars
    /\ UNCHANGED handlerVars

\* The executor call ends, any injected press released: it has completed (a
\* click only with its button events sent; an app switch with its selection
\* and switch made) or raised.
SInjectEnd ==
    /\ spc = "x_running"
    /\ loc.inject # "down"
    /\ \E d \in {"Done", "Error"} :
          /\ (d = "Done" /\ loc.action = "MOUSE_CLICK") => loc.inject = "up"
          /\ loc' = [loc EXCEPT !.desc = d, !.inject = "none"]
          /\ IF d = "Done" /\ loc.action = "APP_SWITCH"
             THEN \E coin \in BOOLEAN : AppSwitched(ExecuteAppSwitch(coin))
             ELSE UNCHANGED <<appVars, hist>>
    /\ spc' = "x_end"
    /\ UNCHANGED <<now, hw, monVars, st, stop_event, pause_event, resume_event, start_time, paused_time, pause_start, last_app_switch_time, cpc>>
    /\ slept' = [slept EXCEPT !.sch = 0]
    /\ UNCHANGED config
    /\ UNCHANGED protVars
    /\ UNCHANGED handlerVars

\* The finally clause (restore_activity) and the return into _active_phase:
\* an app switch restarts its timer; the outcome becomes last_action.
SActionEnd ==
    /\ spc = "x_end"
    /\ IF loc.desc = "Skipped" THEN UNCHANGED ignore_activity ELSE RestoreActivity
    /\ last_app_switch_time' = IF loc.action = "APP_SWITCH" THEN now ELSE last_app_switch_time
    /\ st' = [st EXCEPT !.last_action = loc.desc, !.runtime_remaining = GetRuntimeRemaining]
    /\ loc' = [loc EXCEPT !.action = "none", !.desc = "none"]
    /\ spc' = "a_top"
    /\ hist' = IF loc.action = "APP_SWITCH" THEN [hist EXCEPT !.switchTried = TRUE] ELSE hist
    /\ UNCHANGED <<now, hw, prev, mon, idle_notified, mon_stop_event, mon_is_running, mpc, stop_event, pause_event, resume_event, start_time, paused_time, pause_start, cpc>>
    /\ slept' = [slept EXCEPT !.sch = 0]
    /\ UNCHANGED appVars
    /\ UNCHANGED config
    /\ UNCHANGED protVars
    /\ UNCHANGED handlerVars

\* Variant that never skips the idle phase.
SkipIdlePhase_Never == FALSE

\* _idle_phase: "Skip idle phase if both min and max are 0".
SkipIdlePhase == config.idle_min = 0 /\ config.idle_max = 0

\* _automation_loop after _active_phase, and the entry of _idle_phase:
\* leave on stop or expiry; skip the idle phase when both bounds are 0; else
\* draw its duration and publish IDLE.  random.randint raises ValueError on
\* an empty range, which ends the loop through its except clause.
SAfterActive ==
    /\ spc = "after_active"
    /\ IF stop_event \/ CheckRuntimeExpired
       THEN /\ spc' = "fin"
            /\ hist' = ExpiryChecked(LoopLeft(hist))
            /\ UNCHANGED <<st, loc>>
       ELSE IF SkipIdlePhase
       THEN /\ spc' = "loop"
            /\ UNCHANGED <<st, loc, hist>>
       ELSE IF IdleDurations = {}
       THEN /\ spc' = "fin"
            /\ hist' = IF hist.exitReason = "none" THEN [hist EXCEPT !.exitReason = "value_error"] ELSE hist
            /\ UNCHANGED <<st, loc>>
       ELSE /\ \E d \in IdleDurations :
                  loc' = [loc EXCEPT !.duration = Secs(d), !.phase_start = now, !.wret = "i_calc"]
            /\ st' = [st EXCEPT !.phase = "IDLE", !.last_action = "Idle"]
            /\ spc' = "i_top"
            /\ hist' = [hist EXCEPT !.phaseWait = 0]
    /\ UNCHANGED <<now, hw, monVars, stop_event, pause_event, resume_event, start_time, paused_time, pause_start, last_app_switch_time, cpc>>
    /\ slept' = [slept EXCEPT !.sch = 0]
    /\ UNCHANGED appVars
    /\ UNCHANGED config
    /\ UNCHANGED protVars
    /\ UNCHANGED handlerVars

\* _idle_phase, loop head: stop and expiry checks, then
\* _wait_for_resume_or_stop().
SIdleTop ==
    /\ spc = "i_top"
    /\ IF stop_event \/ CheckRuntimeExpired
       THEN /\ spc' = "loop"
            /\ hist' = ExpiryChecked(hist)
            /\ UNCHANGED <<st, loc>>
       ELSE IF pause_event
       THEN EnterWait("i_calc")
       ELSE /\ spc' = "i_calc"
            /\ UNCHANGED <<st, loc, hist>>
    /\ UNCHANGED <<now, hw, monVars, stop_event, pause_event, resume_event, start_time, paused_time, pause_start, last_app_switch_time, cpc>>
    /\ slept' = [slept EXCEPT !.sch = 0]
    /\ UNCHANGED appVars
    /\ UNCHANGED config
    /\ UNCHANGED protVars
    /\ UNCHANGED handlerVars

\* _idle_phase: end of the phase once its duration is used up; else publish
\* IDLE and sleep.
SIdleCalc ==
    /\ spc = "i_calc"
    /\ IF IntSec(loc.duration - (now - loc.phase_start)) <= 0
       THEN /\ spc' = "loop"
            /\ UNCHANGED <<st>>
       ELSE /\ st' = [st EXCEPT !.runtime_remaining = GetRuntimeRemaining, !.phase = "IDLE"]
            /\ spc' = "i_top"
    /\ UNCHANGED <<now, hw, monVars, stop_event, pause_event, resume_event, start_time, paused_time, pause_start, last_app_switch_time, loc, cpc, hist>>
    /\ slept' = [slept EXCEPT !.sch = 0]
    /\ UNCHANGED appVars
    /\ UNCHANGED config
    /\ UNCHANGED protVars
    /\ UNCHANGED handlerVars

\* on_runtime_expired, when the finally clause found the runtime expired.
RuntimeExpiredCallback(h) ==
    IF loc.runtime_expired THEN [h EXCEPT !.expiredCalls = @ + 1] ELSE h

\* _automation_loop, finally: evaluate the expiry, publish Stopped, stop the
\* detector (joining its thread first if it runs), then notify the expiry.
SFinally ==
    /\ spc = "fin"
    /\ st' = [st EXCEPT !.phase = "STOPPED", !.is_running = FALSE,
                        !.last_action = IF CheckRuntimeExpired THEN "Runtime expired" ELSE "Stopped"]
    /\ loc' = [Loc0 EXCEPT !.runtime_expired = CheckRuntimeExpired]
    /\ IF mon_is_running
       THEN /\ IdleDetectorStopSignal
            /\ spc' = "fin_join"
            /\ hist' = ExpiryChecked(hist)
       ELSE /\ UNCHANGED monVars
            /\ spc' = "done"
            /\ hist' = ExpiryChecked(IF CheckRuntimeExpired THEN [hist EXCEPT !.expiredCalls = @ + 1] ELSE hist)
    /\ UNCHANGED <<now, hw, stop_event, pause_event, resume_event, start_time, paused_time, pause_start, last_app_switch_time, cpc>>
    /\ slept' = [slept EXCEPT !.sch = 0]
    /\ UNCHANGED appVars
    /\ UNCHANGED config
    /\ UNCHANGED protVars
    /\ UNCHANGED handlerVars

\* _automation_loop, finally: the detector has stopped; notify, end the thread.
SFinJoin ==
    /\ spc = "fin_join"
    /\ IdleDetectorStopJoined
    /\ hist' = RuntimeExpiredCallback(hist)
    /\ spc' = "done"
    /\ UNCHANGED <<now, hw, st, stop_event, pause_event, resume_event, start_time, paused_time, pause_start, last_app_switch_time, loc, cpc>>
    /\ slept' = [slept EXCEPT !.sch = 0]
    /\ UNCHANGED appVars
    /\ UNCHANGED config
    /\ UNCHANGED protVars
    /\ UNCHANGED handlerVars

\* The inputs the user works while the scheduler is explored.
UserInputs == {MouseButtons[i] : i \in DOMAIN MouseButtons}

Next ==
    \/ Tick
    \/ \E i \in UserInputs : Press(i)
    \/ \E i \in UserInputs : Release(i)
    \/ MTop \/ MSample \/ MActivity \/ MActivityPause \/ MIdleCheck \/ MIdle \/ MIdleResume
    \/ Start \/ Stop \/ StopJoinMonitor \/ StopJoinThread
    \/ SLoop \/ SActiveTop \/ SWaitEnter \/ SWaitLoop \/ SWaitPublish \/ SActiveCalc \/ SActiveWait \/ SActivePost
    \/ SActionBegin \/ SClickDelay \/ SInject \/ SynthDown \/ SynthUp \/ SInjectEnd \/ SActionEnd
    \/ SAfterActive \/ SIdleTop \/ SIdleCalc \/ SFinally \/ SFinJoin

Spec == Init /\ [][Next]_vars

\* The scheduler configured without idle phase: _idle_phase returns at once,
\* so its loop (SIdleTop, SIdleCalc) has no step to take.
InitNoIdle ==
    /\ InitProgram
    /\ config = ConfigNoIdle
    /\ visible_windows = WindowList(2, {})
    /\ foreground = 1
    /\ minimized = {}

NextNoIdle ==
    \/ Tick
    \/ \E i \in UserInputs : Press(i)
    \/ \E i \in UserInputs : Release(i)
    \/ MTop \/ MSample \/ MActivity \/ MActivityPause \/ MIdleCheck \/ MIdle \/ MIdleResume
    \/ Start \/ Stop \/ StopJoinMonitor \/ StopJoinThread
    \/ SLoop \/ SActiveTop \/ SWaitEnter \/ SWaitLoop \/ SWaitPublish \/ SActiveCalc \/ SActiveWait \/ SActivePost
    \/ SActionBegin \/ SClickDelay \/ SInject \/ SynthDown \/ SynthUp \/ SInjectEnd \/ SActionEnd
    \/ SAfterActive \/ SFinally \/ SFinJoin

SpecNoIdle == InitNoIdle /\ [][NextNoIdle]_vars

\* _automation_loop, finally, with a state-change observer installed that
\* raises: _update_state has stored Stopped when it calls the observer; the
\* observer's exception leaves the finally clause and ends the thread, with
\* idle_detector.stop() and on_runtime_expired never reached.
SFinallyObserverRaises ==
    /\ spc = "fin"
    /\ st' = [st EXCEPT !.phase = "STOPPED", !.is_running = FALSE,
                        !.last_action = IF CheckRuntimeExpired THEN "Runtime expired" ELSE "Stopped"]
    /\ loc' = Loc0
    /\ spc' = "done"
    /\ UNCHANGED <<now, hw, monVars, stop_event, pause_event, resume_event, start_time, paused_time, pause_start, last_app_switch_time, cpc, hist>>
    /\ slept' = [slept EXCEPT !.sch = 0]
    /\ UNCHANGED appVars
    /\ UNCHANGED config
    /\ UNCHANGED protVars
    /\ UNCHANGED handlerVars

\* The scheduler with a state-change observer that may raise when the
\* finally clause publishes Stopped.
NextObs == Next \/ SFinallyObserverRaises

SpecObs == Init /\ [][NextObs]_vars

\* The scheduler constructed with a configuration whose bounds are inverted.
InitInverted ==
    /\ InitProgram
    /\ config \in {ConfigIdleInverted, ConfigIntervalInverted}
    /\ visible_windows = WindowList(2, {})
    /\ foreground = 1
    /\ minimized = {}

SpecInverted == InitInverted /\ [][Next]_vars

\* The scheduler with app switches coming due.
InitSwitch ==
    /\ InitProgram
    /\ config = ConfigSwitch
    /\ visible_windows = WindowList(2, {})
    /\ foreground = 1
    /\ minimized = {}

SpecSwitch == InitSwitch /\ [][Next]_vars

\* The scheduler with the return values of refused start() calls observed.
NextApi == Next \/ StartWhileAlive

SpecApi == Init /\ [][NextApi]_vars

\* ------------------------------------------------------ ApplicationProtection
\* The instance, its process and the history as one value, which the
\* operations below transform; Became(r) makes r the next state's.
Cur == [prot |-> prot, osys |-> osys, hist |-> hist]

Became(r) == prot' = r.prot /\ osys' = r.osys /\ hist' = r.hist

\* What no operation of the protection touches.
schedulerSide == <<now, hw, monVars, schedVars, cpc, config, slept, appVars, handlerVars>>

\* History of a termination event (signal, console control event, unhandled
\* exception, exit, kill) arriving.
TerminationEvent(s) == [s EXCEPT !.hist.termFile = s.osys.emergency_file]

\* _is_emergency_disabled()
IsEmergencyDisabled(s) == s.osys.emergency_file

\* LockWorkStation() is called, by the process or by its watchdog.
LockWorkStation(s, by) == [s EXCEPT !.hist.locks = @ + 1, !.hist.lock = by]

\* _trigger_protection(): once only, and not with the emergency file present.
TriggerProtection(s) ==
    IF s.prot.lock_triggered THEN s
    ELSE IF IsEmergencyDisabled(s) THEN s
    ELSE LockWorkStation([s EXCEPT !.prot.lock_triggered = TRUE], "process")

\* disable_protection(): restore the signal handlers, terminate the watchdog,
\* destroy the power window.  The atexit registration, the console control
\* handler and sys.excepthook are left as they are.
DisableProtection(s) ==
    IF ~s.prot.protection_enabled THEN s
    ELSE [s EXCEPT !.osys.signal = FALSE, !.prot.original_handlers = FALSE,
                   !.osys.watchdog = "none", !.prot.watchdog_process = FALSE,
                   !.prot.power_window = FALSE, !.prot.protection_enabled = FALSE]

\* History of a _shutdown_gracefully() call.
ShutdownCalled(s) == [s EXCEPT !.hist.shutdowns = IF @ < 2 THEN @ + 1 ELSE @]

\* Variant of the guard that never finds a shutdown under way.
AlreadyShuttingDown_Never(s) == FALSE

\* _shutdown_gracefully(): "Already shutting down".
AlreadyShuttingDown(s) == s.prot.should_shutdown

\* _shutdown_gracefully(reason): the first call records the reason, disables
\* the protection and starts the _delayed_exit thread.
ShutdownGracefully(s, reason) ==
    IF AlreadyShuttingDown(s) THEN ShutdownCalled(s)
    ELSE [DisableProtection([ShutdownCalled(s) EXCEPT !.prot.should_shutdown = TRUE,
                                                      !.prot.shutdown_reason = reason])
            EXCEPT !.osys.exit_thread = TRUE]

\* enable_protection(): nothing when enabled already or with the emergency
\* file present; else install every hook and start the watchdog.
EnableProtection ==
    /\ osys.process = "running"
    /\ Became(IF prot.protection_enabled \/ IsEmergencyDisabled(Cur) THEN Cur
              ELSE [Cur EXCEPT !.osys.atexit = TRUE, !.osys.signal = TRUE,
                               !.prot.original_handlers = TRUE, !.osys.console = TRUE,
                               !.osys.excepthook = TRUE, !.prot.power_window = TRUE,
                               !.osys.watchdog = "running", !.prot.watchdog_process = TRUE,
                               !.prot.protection_enabled = TRUE, !.hist.disabled = FALSE])
    /\ UNCHANGED schedulerSide

\* disable_application_protection(), the normal shutdown.
DisableApplicationProtection ==
    /\ osys.process = "running"
    /\ Became([DisableProtection(Cur) EXCEPT !.hist.disabled = TRUE])
    /\ UNCHANGED schedulerSide

\* _setup_power_monitoring() on its own (as test_shutdown_detection.py does).
SetupPowerMonitoring ==
    /\ osys.process = "running"
    /\ ~prot.power_window
    /\ Became([Cur EXCEPT !.prot.power_window = TRUE])
    /\ UNCHANGED schedulerSide

\* The emergency-disable file is created or deleted.
EmergencyFile ==
    /\ osys.process # "dead"
    /\ Became([Cur EXCEPT !.osys.emergency_file = ~@])
    /\ UNCHANGED schedulerSide

\* A signal (SIGINT, SIGTERM, SIGBREAK, SIGABRT) reaches _signal_handler.
Signal ==
    /\ osys.process = "running"
    /\ osys.signal
    /\ Became(TriggerProtection(TerminationEvent(Cur)))
    /\ UNCHANGED schedulerSide

\* Console control events the handler knows.
ConsoleEvents == {"CTRL_C_EVENT", "CTRL_CLOSE_EVENT", "CTRL_LOGOFF_EVENT", "CTRL_SHUTDOWN_EVENT"}

\* console_handler(ctrl_type): Ctrl+C and console close trigger the
\* protection (after a close the system ends the process); logoff and
\* shutdown stop the application.
ConsoleEvent(c) ==
    /\ osys.process = "running"
    /\ osys.console
    /\ Became(IF c = "CTRL_C_EVENT" THEN TriggerProtection(TerminationEvent(Cur))
              ELSE IF c = "CTRL_CLOSE_EVENT"
              THEN [TriggerProtection(TerminationEvent(Cur)) EXCEPT !.osys.process = "dead"]
              ELSE ShutdownGracefully(Cur, IF c = "CTRL_SHUTDOWN_EVENT" THEN "System shutdown" ELSE "User logoff"))
    /\ UNCHANGED schedulerSide

\* Reasons wnd_proc passes on: power, end-of-session and session-change messages.
WindowReasons == {"System sleep/hibernate", "Session ending", "Workstation locked", "User logoff"}

\* wnd_proc receives a power, end-of-session or session-change message.
WindowMessage(reason) ==
    /\ osys.process = "running"
    /\ prot.power_window
    /\ Became(ShutdownGracefully(Cur, reason))
    /\ UNCHANGED schedulerSide

\* An exception nobody handles: exception_handler if installed, then the
\* interpreter exits.
UnhandledException ==
    /\ osys.process = "running"
    /\ Became([(IF osys.excepthook THEN TriggerProtection(TerminationEvent(Cur)) ELSE TerminationEvent(Cur))
                 EXCEPT !.osys.process = "exiting"])
    /\ UNCHANGED schedulerSide

\* The interpreter exits (sys.exit(), end of main, after an unhandled
\* exception): the atexit handlers run, _on_exit among them if registered.
ProcessExit ==
    /\ osys.process \in {"running", "exiting"}
    /\ LET s == TerminationEvent(Cur)
       IN Became([(IF osys.atexit /\ prot.protection_enabled /\ ~prot.lock_triggered
                   THEN TriggerProtection(s) ELSE s)
                    EXCEPT !.osys.process = "dead"])
    /\ UNCHANGED schedulerSide

\* The process is killed (task manager, TerminateProcess): no handler runs.
Kill ==
    /\ osys.process \in {"running", "exiting"}
    /\ Became([TerminationEvent(Cur) EXCEPT !.osys.process = "dead"])
    /\ UNCHANGED schedulerSide

\* _delayed_exit(): os._exit(0) half a second after a graceful shutdown began.
DelayedExit ==
    /\ osys.process \in {"running", "exiting"}
    /\ osys.exit_thread
    /\ Became([TerminationEvent(Cur) EXCEPT !.osys.process = "dead"])
    /\ UNCHANGED schedulerSide

\* The watchdog script finds the watched process gone: lock_workstation().
WatchdogLocks ==
    /\ osys.watchdog = "running"
    /\ osys.process = "dead"
    /\ Became([LockWorkStation(Cur, "watchdog") EXCEPT !.osys.watchdog = "done"])
    /\ UNCHANGED schedulerSide

NextProt ==
    \/ EnableProtection \/ DisableApplicationProtection \/ SetupPowerMonitoring \/ EmergencyFile
    \/ Signal
    \/ \E c \in ConsoleEvents : ConsoleEvent(c)
    \/ \E reason \in WindowReasons : WindowMessage(reason)
    \/ UnhandledException \/ ProcessExit \/ Kill \/ DelayedExit \/ WatchdogLocks

\* The protection of a process, with the scheduler at rest.
SpecProt == Init /\ [][NextProt]_vars

\* ------------------------------------------------------------------ claims

\* C1: while the scheduler is paused by detected user input (pause flag set,
\* phase WAITING_IDLE) no input-injecting ActionExecutor call is started.
C1_NoInjectWhilePaused ==
    [][(spc = "x_inject" /\ spc' = "x_running") => ~(pause_event /\ st.phase = "WAITING_IDLE")]_vars

\* C2: a press made while the scheduler runs in phase ACTIVE or IDLE, and
\* held, has the phase set to WAITING_IDLE before a polling iteration begun
\* after it has ended.
C2_EdgePausesWithinOnePoll == hist.edge # "missed"

\* C3: the pause flag is cleared for a resume (in a live run that is not being
\* stopped) only when at least user_idle_timeout has passed since the last
\* detected press edge.
C3_ResumeOnlyAfterIdleTimeout ==
    [][(pause_event /\ ~pause_event' /\ ~stop_event' /\ ThreadAlive)
          => (hist.lastEdge # None /\ now - hist.lastEdge >= config.user_idle_timeout)]_vars

\* C3 witness: a run that has resumed after a pause of positive length.
C3_Witness == st.is_running /\ ~pause_event /\ paused_time > 0 /\ st.last_action = "Resumed"

\* C4: a run ends as runtime-expired only once the wall time since start()
\* less the time spent paused in WAITING_IDLE has reached total_runtime.
C4_PauseExcludedFromBudget ==
    (st.last_action = "Runtime expired" \/ hist.expiredCalls > 0)
        => now - start_time - hist.waitTicks >= Secs(config.total_runtime)

\* C5: while the phase stays WAITING_IDLE, a snapshot published by the wait
\* loop carries the same runtime_remaining as the snapshot before it.
C5_RuntimeFrozenWhileWaiting ==
    [][(spc = "w_pub" /\ st.is_running /\ st.phase = "WAITING_IDLE" /\ st'.phase = "WAITING_IDLE")
          => st'.runtime_remaining = st.runtime_remaining]_vars

\* C6: within one run the published runtime_remaining never increases.
C6_RuntimeNeverIncreases ==
    [][(ThreadAlive /\ st.is_running /\ st'.is_running)
          => st'.runtime_remaining <= st.runtime_remaining]_vars

\* C7: a run whose loop was left on runtime expiry has on_runtime_expired
\* invoked exactly once; one ended by a stop() made before the budget ran
\* out, never.
C7_ExpiredCallbackExactlyOnce ==
    spc = "done" => /\ hist.exitReason = "expired" => hist.expiredCalls = 1
                    /\ hist.exitReason = "stop" => hist.expiredCalls = 0

C9_StoppedIsTerminal ==
    [][(st.phase = "STOPPED" /\ ~st.is_running /\ hist.exitReason \in {"stop", "stop_late", "expired"})
          => st'.phase = "STOPPED"]_vars

C11_OneActivityPerEdge ==
    [][mpc = "m_sample"
          => Cardinality({i \in Inputs : ~prev[i] /\ prev'[i]}) = (IF mpc' = "m_act" THEN 1 ELSE 0)]_vars

\* C12: the detector's suppression flag is set only while the scheduling
\* thread is inside _execute_action / _execute_app_switch: every execution
\* that set it has cleared it by the time it returns (done, error, cancelled).
C12_SuppressionPaired == ignore_activity => spc \in {"x_click", "x_inject", "x_running", "x_end"}

\* C12 witness: an action that raised has returned, and suppression is off.
C12_Witness == spc = "a_top" /\ st.last_action = "Error" /\ ~ignore_activity

\* C13: no sampling of the detector records, as its new presses, only inputs
\* held down by the scheduler's own injected input; so on_activity is never
\* called, and the run never paused, on account of injected input.
C13_InjectedInputUnseen == ~hist.synthHit

\* C14: a safe click whose pre-delay saw a stop() call, or a press by the user
\* followed by a whole polling iteration, ends the pre-delay cancelled: the
\* click is not performed and the outcome reported is the cancellation.
C14_ClickAbandoned ==
    [][(spc = "x_click" /\ spc' # "x_click" /\ hist.clickDelay \in {"stopped", "polled"})
          => (spc' = "x_end" /\ loc'.desc = "Cancelled")]_vars

\* C15 as claimed: over any static list of eligible windows, no window is
\* switched to twice within a round of as many app switches as the list is long.
C15_AllBeforeRepeat ==
    \A a, b \in DOMAIN hist.switched : a # b => hist.switched[a] # hist.switched[b]

\* C15: over a static list of eligible windows with at most one Chrome window,
\* no window is switched to twice within a round of as many app switches as
\* the list is long.
C15_AllBeforeRepeatOneChrome ==
    Len(ChromeWindows) < 2
        => \A a, b \in DOMAIN hist.switched : a # b => hist.switched[a] # hist.switched[b]

\* C15 witness: a full round over three windows, one of them a Chrome window.
C15_Witness ==
    Len(visible_windows) = 3 /\ Len(ChromeWindows) = 1 /\ Len(hist.switched) = 3

\* C16: while the scheduling thread of a previous start() lives, no start()
\* is accepted, and a start() call returns False leaving the timestamps, the
\* pause total, the published state (cycle_count included), the stop, pause
\* and resume flags, the detector and the running loop as they were.
C16_StartRefusedWhileAlive ==
    [][spc \notin {"none", "done"}
          => /\ hist'.runs = hist.runs
             /\ (hist'.ret = "start_false" /\ hist.ret # "start_false")
                   => UNCHANGED <<st, start_time, paused_time, pause_start, last_app_switch_time,
                                  stop_event, pause_event, resume_event, spc, loc, monVars>>]_vars

\* C16 witness: a start() call was refused during a pause of a run in its
\* first cycle or later.
C16_Witness ==
    hist.ret = "start_false" /\ spc \notin {"none", "done"} /\ pause_event /\ st.cycle_count >= 1

\* C17: a stop() call that is the second since the latest start() (of a run
\* that ended by stop() or by runtime expiry), or made on a scheduler never
\* started, leaves the phase STOPPED and is_running false, starts no thread,
\* invokes no on_runtime_expired and returns.
C17_StopIdempotent ==
    [][(/\ hist'.stops > hist.stops
        /\ \/ hist.runs = 0
           \/ hist.stops >= 1 /\ hist.exitReason \in {"stop", "stop_late", "expired"})
          => /\ st'.phase = "STOPPED" /\ ~st'.is_running
             /\ spc' = spc /\ mpc' = mpc
             /\ hist'.expiredCalls = hist.expiredCalls
             /\ cpc' = "idle"]_vars

\* C18: at most one polling loop of the detector runs at any time, whatever
\* the interleaving of start() calls from two threads.
C18_OnePollingLoop == hist.loops <= 1

C20_NoWaitRemainingOutsideWait == st.phase # "WAITING_IDLE" => st.idle_wait_remaining = 0

\* C21: with idle_min = idle_max = 0 the phase is never IDLE and the idle
\* loop is never entered; an Active phase that ends with the run going on
\* leads, without any time passing and with the state left alone in between,
\* to the loop head, which counts the next cycle and publishes ACTIVE.
C21_IdleSkipped ==
    /\ [](st.phase # "IDLE" /\ spc \notin {"i_top", "i_calc"})
    /\ [][(spc = "after_active" /\ spc' # spc /\ ~(stop_event \/ CheckRuntimeExpired))
            => (spc' = "loop" /\ st' = st)]_vars
    /\ [][(spc = "loop" /\ spc' # spc /\ ~(stop_event \/ CheckRuntimeExpired))
            => (st'.phase = "ACTIVE" /\ st'.cycle_count = st.cycle_count + 1)]_vars
    /\ [][(spc \in {"after_active", "loop"}) => (now' = now)]_vars

\* C21 witness: the second cycle's Active phase, entered right after the
\* first with no idle phase configured.
C21_Witness == SkipIdlePhase /\ st.cycle_count = 2 /\ st.phase = "ACTIVE" /\ spc = "a_wait"

\* C22: an error raised by an ActionExecutor call made during an Active
\* phase never ends the run (no exception reaches the handler of
\* _automation_loop), and an executor call that raised has its failure
\* description published as last_action with the phase loop going on.
C22_ExecutorErrorsContained ==
    /\ [](hist.exitReason # "error")
    /\ [][(spc = "x_end" /\ spc' # spc /\ loc.desc = "Error")
            => (spc' = "a_top" /\ st'.last_action = "Error")]_vars

\* C23: once the scheduling thread has ended after an exception escaped its
\* loop, the published phase is STOPPED, is_running is false and the
\* detector is stopped (not running, its polling thread ended).
C23_EscapedExceptionStopsAll ==
    (hist.exitReason = "error" /\ spc = "done")
        => (st.phase = "STOPPED" /\ ~st.is_running /\ ~mon_is_running /\ mpc \in {"none", "done"})

\* C24: LockWorkStation() is never called, by the process or by its
\* watchdog, when the emergency-disable file existed at the termination
\* event (Ctrl+C, console close, signal, unhandled exception, exit, kill)
\* that led to the call.
C24_NoLockWithEmergencyFile == [][hist'.locks > hist.locks => ~hist'.termFile]_vars

\* C25: once disable_application_protection() has completed (and the
\* protection has not been enabled again), LockWorkStation() is not called
\* any more, whatever termination event follows.
C25_NoLockAfterDisable == [][hist'.locks > hist.locks => ~hist.disabled]_vars

C27_PauseExcludedFromPhase ==
    [][((spc = "a_calc" /\ spc' = "after_active") \/ (spc = "i_calc" /\ spc' = "loop"))
         => now - loc.phase_start - hist.phaseWait > loc.duration - TicksPerSec]_vars

\* C28: when the Active phase decides for an app switch after a resume from
\* a pause, at least app_switch_interval has passed since that resume.
C28_NoSwitchRightAfterResume ==
    [][(spc = "a_post" /\ loc'.action = "APP_SWITCH" /\ hist.resumeAt # None)
         => now - hist.resumeAt >= config.app_switch_interval]_vars

\* C28 witness: an app switch under way in a run that has resumed from a
\* pause, the resume being the latest restart of the app-switch timer.
C28_Witness ==
    /\ spc = "x_running" /\ loc.action = "APP_SWITCH"
    /\ hist.resumeAt # None /\ last_app_switch_time = hist.resumeAt

\* C29: an action wait that ends with neither stop nor pause set is followed
\* by one action, and only such a wait leads to an action: an app switch
\* exactly when app_switch_interval has passed since the app-switch baseline,
\* else one of the general actions; on its return the action is cleared and
\* the phase loop goes on; an app-switch attempt, whatever its outcome, sets
\* the baseline to the current time and a general action leaves it alone.
C29_OneActionPerWait ==
    /\ [][(spc = "a_post" /\ spc' # spc /\ ~pause_event /\ ~stop_event)
            => /\ spc' = "x_begin"
               /\ loc'.action \in GeneralActions \cup {"APP_SWITCH"}
               /\ loc'.action = "APP_SWITCH"
                    <=> now - last_app_switch_time >= config.app_switch_interval]_vars
    /\ [][(spc' = "x_begin" /\ spc # spc') => (spc = "a_post" /\ loc.action = "none")]_vars
    /\ [][(spc = "x_end" /\ spc' # spc)
            => /\ spc' = "a_top" /\ loc'.action = "none"
               /\ last_app_switch_time' = IF loc.action = "APP_SWITCH" THEN now ELSE last_app_switch_time]_vars

\* C29 witness: an app switch that came due at least two ticks after the
\* start, with no resume before it, has failed and has restarted the baseline.
C29_Witness ==
    /\ spc = "a_top" /\ st.last_action = "Error"
    /\ hist.resumeAt = None /\ now >= 3 /\ last_app_switch_time = now


\* C30: a call of the round-robin selector never returns the window that was
\* in front nor a minimized one, looks at each known window at most once, and
\* returns no window exactly when every known window is in front or minimized.
C30_SelectorSkipsAndTerminates ==
    LET r == hist.select
        Eligible(k) == r.known[k].hwnd # r.current /\ r.known[k].hwnd \notin r.iconic
    IN /\ r.found => (\E k \in DOMAIN r.known : r.known[k].hwnd = r.hwnd /\ Eligible(k))
       /\ r.found => (r.hwnd # r.current /\ r.hwnd \notin r.iconic)
       /\ \A i, j \in DOMAIN r.examined : i # j => r.examined[i] # r.examined[j]
       /\ \A i \in DOMAIN r.examined : r.examined[i] \in 0..(Len(r.known) - 1)
       /\ ~r.found <=> ~(\E k \in DOMAIN r.known : Eligible(k))

\* A call that passed over the window in front and a minimized window of a
\* stale list before it returned the third.
C30_Witness ==
    LET r == hist.select
    IN /\ r.found /\ Len(r.examined) = 3
       /\ \E i \in 1..2 : r.known[r.examined[i] + 1].hwnd = r.current
       /\ \E i \in 1..2 : r.known[r.examined[i] + 1].hwnd \in r.iconic

C32_WaitingIdleEnds ==
    /\ (st.phase = "WAITING_IDLE" /\ st.is_running)
          => now - mon.last_activity_time <= config.user_idle_timeout + 1
    /\ st.phase = "WAITING_IDLE" => (spc \notin {"none", "done"} \/ mpc \notin {"none", "done"})

\* C33: a configuration with inverted bounds never makes the scheduling loop
\* fail: the loop is never left through a ValueError of a random draw.
C33_InvertedBoundsHarmless == hist.exitReason # "value_error"

\* C34: the published phase changes only along the state-machine table:
\* STOPPED to ACTIVE, ACTIVE to IDLE, IDLE to ACTIVE, ACTIVE or IDLE to
\* WAITING_IDLE, WAITING_IDLE back to ACTIVE or IDLE with the pause cleared
\* by the idle signal, and any phase to STOPPED.
C34_PhaseChangesFollowTable ==
    [][st'.phase # st.phase
         => /\ <<st.phase, st'.phase>> \in
                  {<<"STOPPED", "ACTIVE">>, <<"ACTIVE", "IDLE">>, <<"IDLE", "ACTIVE">>,
                   <<"ACTIVE", "WAITING_IDLE">>, <<"IDLE", "WAITING_IDLE">>,
                   <<"WAITING_IDLE", "ACTIVE">>, <<"WAITING_IDLE", "IDLE">>,
                   <<"ACTIVE", "STOPPED">>, <<"IDLE", "STOPPED">>, <<"WAITING_IDLE", "STOPPED">>}
            /\ (st.phase = "WAITING_IDLE" /\ st'.phase \in {"ACTIVE", "IDLE"}) => ~pause_event']_vars

\* C35: while the pause flag is set in a run that has not been stopped, the
\* published phase is WAITING_IDLE, the scheduling thread does not replace it
\* with ACTIVE or IDLE, and the pause description stays in last_action.
C35_PausedMeansWaitingIdle ==
    /\ []((pause_event /\ st.is_running /\ ~stop_event) => st.phase = "WAITING_IDLE")
    /\ [][(pause_event /\ pause_event' /\ st.is_running /\ st'.is_running /\ ~stop_event /\ ~stop_event')
            => /\ st.phase = "WAITING_IDLE" => st'.phase \notin {"ACTIVE", "IDLE"}
               /\ st.last_action = "Paused" => st'.last_action = "Paused"]_vars

\* C36: once an expiry check of a run has returned True, every later check of
\* the run finds the runtime expired, no further cycle, Idle phase or action
\* is started, and the run ends reported as runtime-expired.
C36_ExpiryIsFinal ==
    /\ []((hist.expiredSeen /\ ExpiryCheckedNow) => CheckRuntimeExpired)
    /\ [][hist.expiredSeen => /\ st'.cycle_count = st.cycle_count
                               /\ spc' # spc => spc' \notin {"a_top", "i_top", "x_begin"}]_vars
    /\ []((hist.expiredSeen /\ spc = "done") => hist.expiredCalls = 1)


\* ------------------------------------------------------------------ the two state locks
\* What a thread does with the locks, as a sequence of operations.
Lock(l) == [op |-> "acquire", arg |-> l]

Unlock(l) == [op |-> "release", arg |-> l]

\* Event.set() of the stop event thread t polls.
SetStop(t) == [op |-> "set_stop", arg |-> t]

\* Thread.join(timeout=...) on thread t.
Join(t) == [op |-> "join", arg |-> t]

\* The thread function returns.
Return == [op |-> "return", arg |-> "none"]

\* AutomationScheduler.state: a copy made under the scheduler's lock.
StateGetterOps == <<Lock("scheduler"), Unlock("scheduler")>>

\* AutomationScheduler._update_state: the fields are written under the lock,
\* the observer is handed self.state once the lock is released.
UpdateStateOps == <<Lock("scheduler"), Unlock("scheduler")>> \o StateGetterOps

\* IdleDetector.seconds_until_idle.
SecondsUntilIdleOps == <<Lock("monitor"), Unlock("monitor")>>

\* _wait_for_resume_or_stop with the countdown read while the scheduler's lock is held.
WaitForResumeOps_Nested == <<Lock("scheduler")>> \o SecondsUntilIdleOps \o <<Unlock("scheduler")>> \o StateGetterOps

\* _wait_for_resume_or_stop: the countdown is read first, then published.
WaitForResumeOps == SecondsUntilIdleOps \o UpdateStateOps

\* _on_user_activity and _on_user_idle: one _update_state each.
OnUserActivityOps == UpdateStateOps

OnUserIdleOps == UpdateStateOps

\* One pass of _poll_thread_func: the activity stamp under the monitor's lock
\* and on_activity outside it (when pressed), then the idle check under the
\* lock, on_idle included (when notify).
PollOps(pressed, notify) ==
    (IF pressed THEN <<Lock("monitor"), Unlock("monitor")>> \o OnUserActivityOps ELSE <<>>)
        \o <<Lock("monitor")>> \o (IF notify THEN OnUserIdleOps ELSE <<>>) \o <<Unlock("monitor")>>

\* IdleDetector.stop(): the stop event, then a join with a timeout.
DetectorStopOps == <<SetStop("poll"), Join("poll")>>

\* The finally block of _automation_loop.
FinallyOps == UpdateStateOps \o DetectorStopOps \o <<Return>>

\* AutomationScheduler.stop().
StopOps == <<SetStop("sched")>> \o DetectorStopOps \o <<Join("sched")>> \o UpdateStateOps

\* Everything but the locks and the threads' business with them.
besidesLocks == <<now, hw, monVars, schedVars, cpc, config, slept, appVars, protVars, fl, hist>>

LkIdle(t) == lk.ops[t] = <<>> /\ t \notin lk.ended

LkHead(t) == Head(lk.ops[t])

\* The polling thread goes round its loop once more.
PollIteration ==
    /\ LkIdle("poll")
    /\ "poll" \notin lk.stop
    /\ \E pressed \in BOOLEAN, notify \in BOOLEAN :
        lk' = [lk EXCEPT !.ops["poll"] = PollOps(pressed, notify)]
    /\ UNCHANGED besidesLocks

\* The polling thread sees its stop event and returns.
PollExit ==
    /\ LkIdle("poll")
    /\ "poll" \in lk.stop
    /\ lk' = [lk EXCEPT !.ended = @ \cup {"poll"}]
    /\ UNCHANGED besidesLocks

\* The scheduling thread waits paused, or publishes a state from a phase.
SchedIteration ==
    /\ LkIdle("sched")
    /\ "sched" \notin lk.stop
    /\ \E o \in {WaitForResumeOps, UpdateStateOps} :
        lk' = [lk EXCEPT !.ops["sched"] = o]
    /\ UNCHANGED besidesLocks

\* The scheduling thread leaves its loop, stopped or out of runtime.
SchedFinally ==
    /\ LkIdle("sched")
    /\ lk' = [lk EXCEPT !.ops["sched"] = FinallyOps, !.stop = @ \cup {"sched"}]
    /\ UNCHANGED besidesLocks

\* The scheduling thread returns from _automation_loop.
SchedExit ==
    /\ lk.ops["sched"] # <<>>
    /\ LkHead("sched").op = "return"
    /\ lk' = [lk EXCEPT !.ended = @ \cup {"sched"}, !.ops["sched"] = Tail(@)]
    /\ UNCHANGED besidesLocks

\* Some thread outside the two reads scheduler.state.
CallerGetState ==
    /\ LkIdle("caller")
    /\ lk' = [lk EXCEPT !.ops["caller"] = StateGetterOps]
    /\ UNCHANGED besidesLocks

\* Some thread outside the two calls scheduler.stop().
CallerStop ==
    /\ LkIdle("caller")
    /\ "sched" \notin lk.ended
    /\ lk' = [lk EXCEPT !.ops["caller"] = StopOps]
    /\ UNCHANGED besidesLocks

\* threading.Lock.acquire(): only a free lock is taken, whoever asks.
LockAcquire(t) ==
    /\ lk.ops[t] # <<>>
    /\ LkHead(t).op = "acquire"
    /\ lk.owner[LkHead(t).arg] = "free"
    /\ lk' = [lk EXCEPT !.owner[LkHead(t).arg] = t, !.ops[t] = Tail(@)]
    /\ UNCHANGED besidesLocks

\* The end of a with block.
LockRelease(t) ==
    /\ lk.ops[t] # <<>>
    /\ LkHead(t).op = "release"
    /\ lk' = [lk EXCEPT !.owner[LkHead(t).arg] = "free", !.ops[t] = Tail(@)]
    /\ UNCHANGED besidesLocks

SignalStop(t) ==
    /\ lk.ops[t] # <<>>
    /\ LkHead(t).op = "set_stop"
    /\ lk' = [lk EXCEPT !.stop = @ \cup {LkHead(t).arg}, !.ops[t] = Tail(@)]
    /\ UNCHANGED besidesLocks

\* A join returns when the thread has ended or when its timeout runs out.
ThreadJoin(t) ==
    /\ lk.ops[t] # <<>>
    /\ LkHead(t).op = "join"
    /\ lk' = [lk EXCEPT !.ops[t] = Tail(@)]
    /\ UNCHANGED besidesLocks

NextLocks ==
    \/ PollIteration
    \/ PollExit
    \/ SchedIteration
    \/ SchedFinally
    \/ SchedExit
    \/ CallerGetState
    \/ CallerStop
    \/ \E t \in Threads : LockAcquire(t)
    \/ \E t \in Threads : LockRelease(t)
    \/ \E t \in Threads : SignalStop(t)
    \/ \E t \in Threads : ThreadJoin(t)

SpecLocks == Init /\ [][NextLocks]_vars

\* The lock thread t is about to take, "none" when it is not at an acquire.
Wants(t) == IF lk.ops[t] # <<>> /\ LkHead(t).op = "acquire" THEN LkHead(t).arg ELSE "none"

\* Thread t is blocked in acquire().
Waiting(t) == Wants(t) # "none" /\ lk.owner[Wants(t)] # "free"

\* Every thread of W waits for a lock held inside W: none of them ever runs again.
Deadlocked(W) == W # {} /\ \A t \in W : Waiting(t) /\ lk.owner[Wants(t)] \in W

\* C37: in no interleaving of the polling thread (on_idle under the monitor's
\* lock), the scheduling thread (seconds_until_idle, then _update_state) and a
\* caller of stop() or of the state getter is there a set of threads each
\* blocked on a state lock held by another of the set (or by itself); a held
\* lock always has an owner that is alive and has its release still to run.
C37_NoLockDeadlock ==
    /\ \A W \in SUBSET Threads : ~Deadlocked(W)
    /\ \A l \in Locks : lk.owner[l] # "free" =>
        /\ lk.owner[l] \notin lk.ended
        /\ \E i \in 1..Len(lk.ops[lk.owner[l]]) : lk.ops[lk.owner[l]][i] = Unlock(l)

\* The scheduling thread waits for the monitor's lock while the polling thread,
\* inside on_idle, waits for the scheduler's lock, which the caller holds.
C37_Witness ==
    /\ Waiting("sched") /\ lk.owner["monitor"] = "poll"
    /\ Waiting("poll") /\ lk.owner["scheduler"] = "caller"


\* ------------------------------------------------------------------ unattended runs
\* user_idle_timeout values tried, in ticks: shorter than, equal to and longer
\* than app_switch_interval, and longer than the whole run.
IdleTimeouts == {1, 2, 3, MaxTime + 1}

\* The scheduler with app switches coming due, under each idle timeout.
InitUnattended ==
    /\ InitProgram
    /\ config \in {[ConfigSwitch EXCEPT !.user_idle_timeout = t] : t \in IdleTimeouts}
    /\ visible_windows = WindowList(2, {})
    /\ foreground = 1
    /\ minimized = {}

\* The program with nobody at the mouse or the keyboard: no input is pressed,
\* so the polling thread detects no activity and the run is never paused.
NextUnattended ==
    \/ Tick
    \/ MTop \/ MSample \/ MIdleCheck \/ MIdle \/ MIdleResume
    \/ Start \/ Stop \/ StopJoinMonitor \/ StopJoinThread
    \/ SLoop \/ SActiveTop \/ SActiveCalc \/ SActiveWait \/ SActivePost
    \/ SActionBegin \/ SClickDelay \/ SInject \/ SynthDown \/ SynthUp \/ SInjectEnd \/ SActionEnd
    \/ SAfterActive \/ SIdleTop \/ SIdleCalc \/ SFinally \/ SFinJoin

SpecUnattended == InitUnattended /\ [][NextUnattended]_vars

\* C38: with no user activity the app-switch baseline changes only in
\* start() and at the end of an app-switch attempt, so that, until the run's
\* first attempt, an action tick decides for an app switch exactly when
\* app_switch_interval has passed since start(), whatever user_idle_timeout.
C38_BaselineOnlyFromStartAndSwitch ==
    /\ [][last_app_switch_time' # last_app_switch_time
            => \/ ~ThreadAlive /\ spc' = "loop"
               \/ spc = "x_end" /\ loc.action = "APP_SWITCH"]_vars
    /\ [][(spc = "a_post" /\ spc' = "x_begin" /\ ~hist.switchTried)
            => (loc'.action = "APP_SWITCH" <=> now - start_time >= config.app_switch_interval)]_vars


\* C39: while a run is on, the accumulated pause time lies between 0 and the
\* time passed since start(), so the elapsed runtime is not negative and the
\* remaining runtime, computed or published, lies in 0..total_runtime.
C39_PauseWithinElapsed ==
    /\ (ThreadAlive \/ st.is_running) =>
        /\ start_time # None
        /\ 0 <= paused_time /\ paused_time <= now - start_time
        /\ now - start_time - paused_time >= 0
        /\ GetRuntimeRemaining \in 0..config.total_runtime
        /\ st.runtime_remaining \in 0..config.total_runtime
    /\ pause_start # None => (start_time # None /\ start_time <= pause_start /\ pause_start <= now)

\* C39 witness: a run that has resumed from a first pause and is paused again,
\* time having passed in the second pause.
C39_Witness ==
    /\ ThreadAlive /\ st.is_running
    /\ paused_time > 0 /\ pause_start # None /\ now > pause_start


\* ------------------------------------------------------------------ ForceLogoutHandler
\* Everything but the handler.
besidesLogout == <<now, hw, monVars, schedVars, cpc, config, slept, appVars, protVars, lk, hist>>

\* ForceLogout threads alive.
SequencesAlive == fl.sequences.cleanup + fl.sequences.exit + fl.sequences.finally + fl.sequences.clearing

\* Logout sequences in progress: claimed by a notifier that is about to start
\* the thread, or running.
InProgress == Cardinality({n \in Notifiers : fl.pc[n] = "spawn"}) + SequencesAlive

\* Variant in which the flag is never found set.
LogoutInProgressSeen_Never == FALSE

\* if self._logout_in_progress, read under _logout_lock.
LogoutInProgressSeen == fl.logout_in_progress

\* The enabled setter, from the settings or from the cleanup.
SetEnabled(v) ==
    /\ fl.enabled # v
    /\ fl' = [fl EXCEPT !.enabled = v]
    /\ UNCHANGED besidesLogout

\* on_user_activity_detected, entry: return when not enabled.
Notify(n) ==
    /\ fl.pc[n] = "idle"
    /\ fl' = [fl EXCEPT !.received[n] = IF fl.enabled THEN "enabled" ELSE "disabled",
                        !.pc[n] = IF fl.enabled THEN "lock" ELSE "idle"]
    /\ UNCHANGED besidesLogout

\* with self._logout_lock: entered when the lock is free.
NotifyLock(n) ==
    /\ fl.pc[n] = "lock"
    /\ fl.lock = "free"
    /\ fl' = [fl EXCEPT !.lock = "notifier", !.pc[n] = "locked"]
    /\ UNCHANGED besidesLogout

\* Under the lock: return when a logout is in progress, else set the flag.
NotifyTestAndSet(n) ==
    /\ fl.pc[n] = "locked"
    /\ fl' = IF LogoutInProgressSeen
             THEN [fl EXCEPT !.lock = "free", !.pc[n] = "idle"]
             ELSE [fl EXCEPT !.lock = "free", !.pc[n] = "spawn", !.logout_in_progress = TRUE]
    /\ UNCHANGED besidesLogout

\* logout_thread.start().
NotifySpawn(n) ==
    /\ fl.pc[n] = "spawn"
    /\ SequencesAlive < MaxSequences
    /\ fl' = [fl EXCEPT !.pc[n] = "idle", !.sequences.cleanup = @ + 1]
    /\ UNCHANGED besidesLogout

\* _execute_logout_sequence, step 1: the cleanup callback, which may switch
\* force logout off (the UI's does), may raise, or may be absent.
SeqCleanup ==
    /\ fl.sequences.cleanup > 0
    /\ \E disables \in BOOLEAN :
        fl' = [fl EXCEPT !.enabled = IF disables THEN FALSE ELSE @,
                         !.sequences.cleanup = @ - 1, !.sequences.exit = @ + 1]
    /\ UNCHANGED besidesLogout

\* Steps 2 to 4: the delay, the privilege and ExitWindowsEx, whatever they
\* return or raise.
SeqExitWindows ==
    /\ fl.sequences.exit > 0
    /\ fl' = [fl EXCEPT !.sequences.exit = @ - 1, !.sequences.finally = @ + 1]
    /\ UNCHANGED besidesLogout

\* finally: with self._logout_lock.
SeqFinallyLock ==
    /\ fl.sequences.finally > 0
    /\ fl.lock = "free"
    /\ fl' = [fl EXCEPT !.lock = "sequence", !.sequences.finally = @ - 1, !.sequences.clearing = @ + 1]
    /\ UNCHANGED besidesLogout

\* self._logout_in_progress = False, and the thread ends.
SeqFinallyClear ==
    /\ fl.sequences.clearing > 0
    /\ fl' = [fl EXCEPT !.lock = "free", !.logout_in_progress = FALSE, !.sequences.clearing = @ - 1]
    /\ UNCHANGED besidesLogout

NextLogout ==
    \/ \E v \in BOOLEAN : SetEnabled(v)
    \/ \E n \in Notifiers : Notify(n)
    \/ \E n \in Notifiers : NotifyLock(n)
    \/ \E n \in Notifiers : NotifyTestAndSet(n)
    \/ \E n \in Notifiers : NotifySpawn(n)
    \/ SeqCleanup
    \/ SeqExitWindows
    \/ SeqFinallyLock
    \/ SeqFinallyClear

SpecLogout == Init /\ [][NextLogout]_vars

\* C40: at most one logout sequence is in progress at any time, however the
\* notifying threads interleave, and its flag is then set; a notification that
\* found force logout disabled on entry returns at once, and only a
\* notification that found it enabled starts a ForceLogout thread.
C40_OneLogoutAtATime ==
    /\ [](InProgress <= 1)
    /\ [](InProgress = 1 => fl.logout_in_progress)
    /\ [](\A n \in Notifiers : fl.pc[n] # "idle" => fl.received[n] = "enabled")
    /\ [][\A n \in Notifiers : (fl.pc[n] = "idle" /\ fl'.pc[n] # "idle") => fl.enabled]_vars
    /\ [][SequencesAlive' > SequencesAlive
            => \E n \in Notifiers : fl.pc[n] = "spawn" /\ fl'.pc[n] = "idle" /\ fl.received[n] = "enabled"]_vars

\* C40 witness: a logout sequence runs its cleanup while a second notifier,
\* which found force logout enabled, holds the lock and is about to find the
\* flag set, another notification having found force logout disabled.
C40_Witness ==
    /\ fl.sequences.cleanup = 1
    /\ \E n \in Notifiers : fl.pc[n] = "locked" /\ fl.logout_in_progress
    /\ \E n \in Notifiers : fl.received[n] = "disabled"

====
